---- MODULE Spec2Model ----
(***************************************************************************)
(* A model of gocat's front end: the tokenizer, the recursive-descent      *)
(* parser, the type algebra (TypeCmp, TypeEqual, NewUnionType,             *)
(* TypeCompatibleWith), the stack type inferencer and TypeCheck.           *)
(*                                                                         *)
(* Runes are code points (integers) and strings are sequences of runes,    *)
(* so that strings.Compare, strings.ContainsRune and the character         *)
(* classifiers are computed as the code computes them.  A nil pointer,     *)
(* a nil error and a nil interface are the record Nil.                     *)
(***************************************************************************)
EXTENDS Integers, Sequences, FiniteSets, TLC

Nil == [nil |-> TRUE]

-----------------------------------------------------------------------------
(* Token kinds                                                             *)

TT_EOF == 0
TT_FUNC == 1
TT_SEMICOLON == 2
TT_COLON == 3
TT_LITINT == 4
TT_LITFLOAT == 5
TT_IDENT == 6
TT_LCBRACKET == 7
TT_RCBRACKET == 8
TT_LPAREN == 9
TT_RPAREN == 10
TT_NUMSIGN == 11
TT_QUOT == 12
TT_IF == 13
TT_LBRACKET == 14
TT_RBRACKET == 15

-----------------------------------------------------------------------------
(* Runes                                                                   *)

eof == 0

CH_TAB == 9
CH_LF == 10
CH_CR == 13
CH_SPACE == 32
CH_NUMSIGN == 35
CH_PERCENT == 37
CH_QUOT == 39
CH_LPAREN == 40
CH_RPAREN == 41
CH_MINUS == 45
CH_DOT == 46
CH_0 == 48
CH_9 == 57
CH_COLON == 58
CH_SEMICOLON == 59
CH_UPPER_A == 65
CH_UPPER_Z == 90
CH_LBRACKET == 91
CH_RBRACKET == 93
CH_LOWER_A == 97
CH_LOWER_Z == 122
CH_LCBRACKET == 123
CH_RCBRACKET == 125

isdigit(rn) == rn >= CH_0 /\ rn <= CH_9

isletter(rn) ==
    IF rn >= CH_LOWER_A /\ rn <= CH_LOWER_Z THEN TRUE
    ELSE IF rn >= CH_UPPER_A /\ rn <= CH_UPPER_Z THEN TRUE
    ELSE FALSE

isident(rn) == isletter(rn) \/ rn = CH_DOT \/ rn = CH_COLON

\* The space is no whitespace.
iswhitespace_noSpace(rn) == rn = CH_TAB \/ rn = CH_CR \/ rn = CH_LF

iswhitespace(rn) == rn = CH_TAB \/ rn = CH_SPACE \/ rn = CH_CR \/ rn = CH_LF

-----------------------------------------------------------------------------
(* Tokenizer.  A tokenizer value t is                                      *)
(*   [src, pos, lineno, charno, rn]                                        *)
(* where src is the text behind the bufio.Reader, pos the number of runes  *)
(* ReadRune has handed out, and rn the pushed-back rune (eof when none).   *)
(* The file path is the same in every position and is left out.            *)

NewTokenizerString(code) ==
    [src |-> code, pos |-> 0, lineno |-> 1, charno |-> 1, rn |-> eof]

filepos(t) == [LineNumber |-> t.lineno, CharNumber |-> t.charno]

\* tokenizer.unread: panics when a rune is already pending.
tzUnread(t, rn) ==
    [t |-> [t EXCEPT !.rn = rn], panic |-> t.rn # eof]

\* A read that gives the carriage return a column too.
tzRead_countsCR(t) ==
    IF t.rn # eof
    THEN [t |-> [t EXCEPT !.rn = eof], rn |-> t.rn]
    ELSE IF t.pos >= Len(t.src)
    THEN [t |-> t, rn |-> eof]
    ELSE LET rn == t.src[t.pos + 1] IN
         [t |-> [t EXCEPT !.pos = @ + 1,
                          !.lineno = IF rn = CH_LF THEN @ + 1 ELSE @,
                          !.charno = IF rn = CH_LF THEN 1 ELSE @ + 1],
          rn |-> rn]

\* tokenizer.read: the pending rune if any, else the next rune of the
\* source (eof at its end), counting lines and columns.  A strings.Reader
\* has no I/O error.  The counters are uint32; no text here has 2^32 runes.
tzRead(t) ==
    IF t.rn # eof
    THEN [t |-> [t EXCEPT !.rn = eof], rn |-> t.rn]
    ELSE IF t.pos >= Len(t.src)
    THEN [t |-> t, rn |-> eof]
    ELSE LET rn == t.src[t.pos + 1] IN
         [t |-> [t EXCEPT !.pos = @ + 1,
                          !.lineno = IF rn = CH_LF THEN @ + 1 ELSE @,
                          !.charno = IF rn = CH_LF THEN 1
                                     ELSE IF rn # CH_CR THEN @ + 1
                                     ELSE @],
          rn |-> rn]

mkToken(sval, type, t) == [SVal |-> sval, Type |-> type, Pos |-> filepos(t)]

TokenizerError(t, cause) ==
    [kind |-> "TokenizerError", Pos |-> filepos(t), Err |-> cause]

\* The result of Next, ident and litintfloat: the tokenizer after the call,
\* the token (Nil on error), the error (Nil on success) and whether the
\* call panicked.
tzResult(t, tok, err, panic) == [t |-> t, tok |-> tok, err |-> err, panic |-> panic]

litFinish(t, buf, seenDot, panic) ==
    IF buf = <<CH_MINUS>>
    THEN tzResult(t, Nil, TokenizerError(t, [msg |-> "missing digit", str |-> buf]), panic)
    ELSE IF seenDot
    THEN tzResult(t, mkToken(buf, TT_LITFLOAT, t), Nil, panic)
    ELSE tzResult(t, mkToken(buf, TT_LITINT, t), Nil, panic)

RECURSIVE litLoop(_, _, _)
litLoop(t, buf, seenDot) ==
    LET r == tzRead(t) IN
    IF r.rn = eof THEN litFinish(r.t, buf, seenDot, FALSE)
    ELSE IF isdigit(r.rn) THEN litLoop(r.t, Append(buf, r.rn), seenDot)
    ELSE IF r.rn = CH_DOT
    THEN IF seenDot
         THEN tzResult(r.t, Nil, TokenizerError(r.t, Nil), FALSE)
         ELSE litLoop(r.t, Append(buf, r.rn), TRUE)
    ELSE LET u == tzUnread(r.t, r.rn) IN
         IF u.panic THEN tzResult(u.t, Nil, Nil, TRUE)
         ELSE litFinish(u.t, buf, seenDot, FALSE)

litintfloat(t, rn) == litLoop(t, <<rn>>, FALSE)

STR_func == <<102, 117, 110, 99>>

\* Every identifier is an IDENT.
identFinish_allIdent(t, buf) == tzResult(t, mkToken(buf, TT_IDENT, t), Nil, FALSE)

identFinish(t, buf) ==
    IF buf = STR_func
    THEN tzResult(t, mkToken(buf, TT_FUNC, t), Nil, FALSE)
    ELSE tzResult(t, mkToken(buf, TT_IDENT, t), Nil, FALSE)

RECURSIVE identLoop(_, _)
identLoop(t, buf) ==
    LET r == tzRead(t) IN
    IF r.rn = eof THEN identFinish(r.t, buf)
    ELSE IF isident(r.rn) THEN identLoop(r.t, Append(buf, r.rn))
    ELSE LET u == tzUnread(r.t, r.rn) IN
         IF u.panic THEN tzResult(u.t, Nil, Nil, TRUE)
         ELSE identFinish(u.t, buf)

ident(t, rn) == identLoop(t, <<rn>>)

\* The loop of Next that skips whitespace.
RECURSIVE skipWhitespace(_)
skipWhitespace(t) ==
    LET r == tzRead(t) IN
    IF ~iswhitespace(r.rn) \/ r.rn = eof THEN r ELSE skipWhitespace(r.t)

STR_eof == <<60, 101, 111, 102, 62>>

\* A token of one rune that leaves the rune in the source.
punct_notTaken(t, rn, type) ==
    tzResult([t EXCEPT !.pos = @ - 1], mkToken(<<rn>>, type, t), Nil, FALSE)

\* The token of a punctuation rune.
punct(t, rn, type) == tzResult(t, mkToken(<<rn>>, type, t), Nil, FALSE)

tzNext(t0) ==
    LET r == skipWhitespace(t0)
        t == r.t
        rn == r.rn
    IN
    CASE rn = CH_NUMSIGN   -> punct(t, rn, TT_NUMSIGN)
      [] rn = CH_SEMICOLON -> punct(t, rn, TT_SEMICOLON)
      [] rn = CH_LCBRACKET -> punct(t, rn, TT_LCBRACKET)
      [] rn = CH_RCBRACKET -> punct(t, rn, TT_RCBRACKET)
      [] rn = CH_LBRACKET  -> punct(t, rn, TT_LBRACKET)
      [] rn = CH_RBRACKET  -> punct(t, rn, TT_RBRACKET)
      [] rn = CH_LPAREN    -> punct(t, rn, TT_LPAREN)
      [] rn = CH_RPAREN    -> punct(t, rn, TT_RPAREN)
      [] rn = CH_QUOT      -> punct(t, rn, TT_QUOT)
      [] OTHER ->
           IF isletter(rn) \/ rn = CH_PERCENT THEN ident(t, rn)
           ELSE IF isdigit(rn) \/ rn = CH_MINUS THEN litintfloat(t, rn)
           ELSE IF rn = eof THEN tzResult(t, mkToken(STR_eof, TT_EOF, t), Nil, FALSE)
           ELSE tzResult(t, Nil,
                         TokenizerError(t, [msg |-> "Unexpected rune", rn |-> rn]),
                         FALSE)

-----------------------------------------------------------------------------
(* Types.  A Type is one of                                                *)
(*   [tag |-> "void"]                                                      *)
(*   [tag |-> "prim", Type |-> name]                                       *)
(*   [tag |-> "union", Types |-> sequence of Type]                         *)
(*   [tag |-> "func", ArgTypes |-> ..., RetTypes |-> ...]                  *)

VoidType == [tag |-> "void"]
PrimType(name) == [tag |-> "prim", Type |-> name]
UnionType(types) == [tag |-> "union", Types |-> types]
FuncType(argTypes, retTypes) ==
    [tag |-> "func", ArgTypes |-> argTypes, RetTypes |-> retTypes]

\* strings.Compare: -1, 0 or +1 by the lexicographic order of the bytes.
RECURSIVE StringsCompare(_, _)
StringsCompare(a, b) ==
    IF a = <<>> /\ b = <<>> THEN 0
    ELSE IF a = <<>> THEN -1
    ELSE IF b = <<>> THEN 1
    ELSE IF Head(a) < Head(b) THEN -1
    ELSE IF Head(a) > Head(b) THEN 1
    ELSE StringsCompare(Tail(a), Tail(b))

\* TypeCmp.  The first length test of the union branch compares
\* len(ut1.Types) with itself, as the code does.  For types other than
\* Void, Prim and Union the code panics; the CASEs have no arm for them.
RECURSIVE TypeCmp(_, _)
RECURSIVE TypeCmpMembers(_, _, _)
TypeCmpMembers(ut1, ut2, i) ==
    IF i > Len(ut1.Types) THEN 0
    ELSE LET c == TypeCmp(ut1.Types[i], ut2.Types[i]) IN
         IF c # 0 THEN c ELSE TypeCmpMembers(ut1, ut2, i + 1)

TypeCmp(t1, t2) ==
    CASE t1.tag = "void" ->
           (IF t2.tag = "void" THEN 0 ELSE -1)
      [] t1.tag = "prim" ->
           (CASE t2.tag = "prim" -> StringsCompare(t1.Type, t2.Type)
              [] t2.tag = "void" -> 1
              [] t2.tag = "union" -> -1)
      [] t1.tag = "union" ->
           (CASE t2.tag = "prim" -> 1
              [] t2.tag = "void" -> 1
              [] t2.tag = "union" ->
                   IF Len(t1.Types) < Len(t1.Types) THEN -1
                   ELSE IF Len(t1.Types) > Len(t2.Types) THEN 1
                   ELSE TypeCmpMembers(t1, t2, 1))

TypeEqual(t1, t2) == TypeCmp(t1, t2) = 0

RECURSIVE TypesEqualFrom(_, _, _)
TypesEqualFrom(ts1, ts2, i) ==
    IF i > Len(ts1) THEN TRUE
    ELSE IF ~TypeEqual(ts1[i], ts2[i]) THEN FALSE
    ELSE TypesEqualFrom(ts1, ts2, i + 1)

TypesEqual(ts1, ts2) ==
    IF Len(ts1) # Len(ts2) THEN FALSE ELSE TypesEqualFrom(ts1, ts2, 1)

\* sort.Slice(types, less) with less(i, j) = TypeCmp(types[i], types[j]) < 0.
\* For the short slices a union has, sort.Slice is an insertion sort:
\*   for i := 1; i < n; i++ { for j := i; j > 0 && less(j, j-1); j-- { swap } }
Swap(s, i, j) == [s EXCEPT ![i] = s[j], ![j] = s[i]]

\* A sort that leaves the slice as it is.
sortInner_noSwap(s, j) == s

RECURSIVE sortInner(_, _)
sortInner(s, j) ==
    IF j > 1 /\ TypeCmp(s[j], s[j - 1]) < 0
    THEN sortInner(Swap(s, j, j - 1), j - 1)
    ELSE s

RECURSIVE sortSlice(_, _)
sortSlice(s, i) ==
    IF i > Len(s) THEN s ELSE sortSlice(sortInner(s, i), i + 1)

\* NewUnionType: sort, then fail on two adjacent equal members.
\* The result is [ut, err].
RECURSIVE firstDuplicate(_, _)
firstDuplicate(types, i) ==
    IF i > Len(types) THEN 0
    ELSE IF i # 1 /\ TypeEqual(types[i], types[i - 1]) THEN i
    ELSE firstDuplicate(types, i + 1)

NewUnionType(types0) ==
    LET types == sortSlice(types0, 2)
        d == firstDuplicate(types, 1)
    IN
    IF d # 0
    THEN [ut |-> Nil,
          err |-> [kind |-> "error", msg |-> "Duplicate type", type |-> types[d]]]
    ELSE [ut |-> UnionType(types), err |-> Nil]

\* A union that fits a union as soon as one of its members is in it.
TypeCompatibleWith_someMember(a, b) ==
    CASE a.tag = "void" -> b.tag = "void"
      [] a.tag = "prim" ->
           IF b.tag = "prim" THEN TypeEqual(a, b)
           ELSE IF b.tag = "union"
           THEN \E i \in 1..Len(b.Types) : TypeEqual(a, b.Types[i])
           ELSE FALSE
      [] a.tag = "union" ->
           IF b.tag = "union"
           THEN \E i \in 1..Len(a.Types) :
                    \E j \in 1..Len(b.Types) : TypeEqual(a.Types[i], b.Types[j])
           ELSE FALSE

\* TypeCompatibleWith(a, b): may a value of type a be given where b is
\* wanted.  The code panics when a is not Void, Prim or Union; the CASE has
\* no arm for that.
TypeCompatibleWith(a, b) ==
    CASE a.tag = "void" -> b.tag = "void"
      [] a.tag = "prim" ->
           IF b.tag = "prim" THEN TypeEqual(a, b)
           ELSE IF b.tag = "union"
           THEN \E i \in 1..Len(b.Types) : TypeEqual(a, b.Types[i])
           ELSE FALSE
      [] a.tag = "union" ->
           IF b.tag = "union"
           THEN \A i \in 1..Len(a.Types) :
                    \E j \in 1..Len(b.Types) : TypeEqual(a.Types[i], b.Types[j])
           ELSE FALSE

-----------------------------------------------------------------------------
(* AST nodes: records with a node field ("LitInt", "LitFloat", "Verb",     *)
(* "Quot", "Exp", "Func") and the fields of the Go struct.                 *)

LitIntNode(value, tk) == [node |-> "LitInt", Value |-> value, Token |-> tk]
LitFloatNode(value, tk) == [node |-> "LitFloat", Value |-> value, Token |-> tk]
VerbNode(verb, tk) == [node |-> "Verb", Verb |-> verb, Token |-> tk]
QuotNode(id, tk) == [node |-> "Quot", Ident |-> id, Token |-> tk]
ExpNode(exps, tk) == [node |-> "Exp", Exps |-> exps, Token |-> tk]
FuncNode(name, args, rets, body, tk) ==
    [node |-> "Func", Name |-> name, Args |-> args, RetTypes |-> rets,
     Body |-> body, Token |-> tk]

Arg(name, type) == [Name |-> name, Type |-> type]
VoidArg == [Name |-> <<>>, Type |-> Nil]

-----------------------------------------------------------------------------
(* Type worlds and inference                                               *)

STR_int == <<105, 110, 116>>
STR_float == <<102, 108, 111, 97, 116>>
STR_square_i == <<115, 113, 117, 97, 114, 101, 46, 105>>

\* A TypeWorld is a function from names to types; a missing key reads nil.
builtins ==
    (STR_square_i :> FuncType(<<PrimType(STR_int)>>, <<PrimType(STR_int)>>))

worldGet(tw, val) == IF val \in DOMAIN tw THEN tw[val] ELSE Nil

\* The first world that holds the name, not the last.
lookupFrom_firstWorld(tws, val, i) ==
    LET hits == {k \in 1..Len(tws) : worldGet(tws[k], val) # Nil} IN
    IF hits = {} THEN Nil
    ELSE worldGet(tws[CHOOSE k \in hits : \A j \in hits : k <= j], val)

RECURSIVE lookupFrom(_, _, _)
lookupFrom(tws, val, i) ==
    IF i < 1 THEN Nil
    ELSE LET it == worldGet(tws[i], val) IN
         IF it # Nil THEN it ELSE lookupFrom(tws, val, i - 1)

\* TypeWorlds.Lookup: the last world first.
Lookup(tws, val) == lookupFrom(tws, val, Len(tws))

TypeError(wanted, got, tk, extra) ==
    [kind |-> "TypeError", Wanted |-> wanted, Got |-> got, Token |-> tk,
     Extra |-> extra]

\* An argument loop that goes from the last argument to the first.
RECURSIVE lastMismatch(_, _, _)
lastMismatch(stack, argTypes, k) ==
    LET m == Len(argTypes)
        i == m - 1 - k
    IN
    IF i < 0 THEN m
    ELSE IF ~TypeCompatibleWith(stack[Len(stack) - m + i + 1], argTypes[i + 1])
    THEN i
    ELSE lastMismatch(stack, argTypes, k + 1)

\* The argument loop of a verb: the least i (from 0) whose stack entry is
\* not compatible with argTypes[i], or m when there is none.
RECURSIVE firstMismatch(_, _, _)
firstMismatch(stack, argTypes, i) ==
    LET m == Len(argTypes) IN
    IF i >= m THEN m
    ELSE IF ~TypeCompatibleWith(stack[Len(stack) - m + i + 1], argTypes[i + 1])
    THEN i
    ELSE firstMismatch(stack, argTypes, i + 1)

\* A verb that takes its arguments off and the entries under them as well.
popPush_dropAll(stack, funcType) == funcType.RetTypes

\* Pop the argument types from the stack and push the return types.
popPush(stack, funcType) ==
    SubSeq(stack, 1, Len(stack) - Len(funcType.ArgTypes)) \o funcType.RetTypes

\* One iteration of the loop over exp.Exps in InferTypes: [stack, err].
InferItem(v, stack, typeWorlds, expToken) ==
    CASE v.node = "LitInt" ->
           [stack |-> Append(stack, PrimType(STR_int)), err |-> Nil]
      [] v.node = "LitFloat" ->
           [stack |-> Append(stack, PrimType(STR_float)), err |-> Nil]
      [] v.node = "Verb" ->
           LET ft == Lookup(typeWorlds, v.Verb) IN
           IF ft = Nil
           THEN [stack |-> <<>>,
                 err |-> [kind |-> "error", msg |-> "does not exist", verb |-> v.Verb]]
           ELSE IF ft.tag # "func"
           THEN [stack |-> <<>>,
                 err |-> [kind |-> "error", msg |-> "is not of type function", verb |-> v.Verb]]
           ELSE IF Len(stack) < Len(ft.ArgTypes)
           THEN [stack |-> <<>>,
                 err |-> [kind |-> "error", msg |-> "Not enough arguments"]]
           ELSE LET m == Len(ft.ArgTypes)
                    i == firstMismatch(stack, ft.ArgTypes, 0)
                IN
                IF i < m
                THEN [stack |-> <<>>,
                      err |-> TypeError(ft.ArgTypes[i + 1],
                                        stack[Len(stack) - m + i + 1],
                                        expToken,
                                        [in |-> "call", name |-> v.Verb])]
                ELSE [stack |-> popPush(stack, ft), err |-> Nil]
      [] OTHER -> [stack |-> stack, err |-> Nil]

RECURSIVE inferExp(_, _, _, _)
inferExp(exp, i, stack, typeWorlds) ==
    IF i > Len(exp.Exps) THEN [stack |-> stack, err |-> Nil]
    ELSE LET r == InferItem(exp.Exps[i], stack, typeWorlds, exp.Token) IN
         IF r.err # Nil THEN r ELSE inferExp(exp, i + 1, r.stack, typeWorlds)

InferTypes(node, stack, typeWorlds) ==
    CASE node.node = "LitFloat" ->
           [stack |-> Append(stack, PrimType(STR_float)), err |-> Nil]
      [] node.node = "LitInt" ->
           [stack |-> Append(stack, PrimType(STR_int)), err |-> Nil]
      [] node.node = "Exp" -> inferExp(node, 1, stack, typeWorlds)
      [] OTHER -> [stack |-> <<>>, err |-> [kind |-> "error", msg |-> "Cannot infer types"]]

-----------------------------------------------------------------------------
(* Modules.  A Module is [Name, Funcs] with Funcs a function from function *)
(* names to Func records [Type, Name, FuncNode].                           *)

RECURSIVE argTypesOf(_)
argTypesOf(args) ==
    IF args = <<>> THEN <<>> ELSE <<Head(args).Type>> \o argTypesOf(Tail(args))

mkFuncType(fn) == FuncType(argTypesOf(fn.Args), fn.RetTypes)

mkFunc(fn) == [FuncNode |-> fn, Type |-> mkFuncType(fn), Name |-> fn.Name]

\* The body of TypeCheck's loop for one function fn: infer the body nodes
\* from the empty stack, compare the number of values and then each value
\* with the declared return types.  Nil when fn is well typed.
RECURSIVE inferBody(_, _, _, _)
inferBody(body, i, types, typeWorlds) ==
    IF i > Len(body) THEN [stack |-> types, err |-> Nil]
    ELSE LET r == InferTypes(body[i], types, typeWorlds) IN
         IF r.err # Nil THEN r ELSE inferBody(body, i + 1, r.stack, typeWorlds)

\* A comparison of the returned values that finds every value fitting.
firstBadReturn_none(types, retTypes, i) == Len(types)

RECURSIVE firstBadReturn(_, _, _)
firstBadReturn(types, retTypes, i) ==
    IF i >= Len(types) THEN Len(types)
    ELSE IF ~TypeCompatibleWith(types[i + 1], retTypes[i + 1]) THEN i
    ELSE firstBadReturn(types, retTypes, i + 1)

checkFunc(fn, typeWorlds) ==
    LET r == inferBody(fn.FuncNode.Body, 1, <<>>, typeWorlds) IN
    IF r.err # Nil THEN r.err
    ELSE IF Len(r.stack) # Len(fn.Type.RetTypes)
    THEN [kind |-> "error", msg |-> "does not return the right amount of values",
          fn |-> fn.Name, wanted |-> Len(fn.Type.RetTypes), got |-> Len(r.stack)]
    ELSE LET i == firstBadReturn(r.stack, fn.Type.RetTypes, 0) IN
         IF i < Len(r.stack)
         THEN TypeError(fn.Type.RetTypes[i + 1], r.stack[i + 1], fn.FuncNode.Token,
                        [in |-> "returned values", name |-> fn.Name])
         ELSE Nil

\* The function name alone.
fqname_short(mname, fname) == fname

\* The first loop of TypeCheck: every function under module:function.
fqname(mname, fname) == mname \o <<CH_COLON>> \o fname

modulesTypeWorld(mods) ==
    LET keys == {<<k, f>> : k \in DOMAIN mods, f \in UNION {DOMAIN mods[m].Funcs : m \in DOMAIN mods}}
        defined == {kf \in keys : kf[2] \in DOMAIN mods[kf[1]].Funcs}
        names == {fqname(mods[kf[1]].Name, mods[kf[1]].Funcs[kf[2]].Name) : kf \in defined}
    IN
    [n \in names |->
        LET kf == CHOOSE kf \in defined :
                      fqname(mods[kf[1]].Name, mods[kf[1]].Funcs[kf[2]].Name) = n
        IN mods[kf[1]].Funcs[kf[2]].Type]

\* NewTypeWorlds(builtins, modulesTypeWorld): the module world is last, so
\* it is looked up first.
NewTypeWorlds(w1, w2) == <<w1, w2>>

-----------------------------------------------------------------------------
(* strconv.ParseInt(s, 10, 64) and strconv.ParseFloat(s, 64) on the        *)
(* lexemes the tokenizer makes.  The value of an integer is kept as its    *)
(* sign and its digits without leading zeros, the value of a float as its  *)
(* sign, integer digits and fraction digits without the zeros that do not  *)
(* count (the decimal the lexeme denotes; float64 rounding is not          *)
(* modelled, nor is the range error of a float of more than 308 digits).   *)

STR_maxInt64 == <<57,50,50,51,51,55,50,48,51,54,56,53,52,55,55,53,56,48,55>>
STR_minInt64 == <<57,50,50,51,51,55,50,48,51,54,56,53,52,55,55,53,56,48,56>>

RECURSIVE stripLeadingZeros(_)
stripLeadingZeros(ds) ==
    IF ds # <<>> /\ Head(ds) = CH_0 THEN stripLeadingZeros(Tail(ds)) ELSE ds

RECURSIVE stripTrailingZeros(_)
stripTrailingZeros(ds) ==
    IF ds # <<>> /\ ds[Len(ds)] = CH_0
    THEN stripTrailingZeros(SubSeq(ds, 1, Len(ds) - 1))
    ELSE ds

allDigits(ds) == \A i \in 1..Len(ds) : isdigit(ds[i])

ParseInt(s) ==
    LET neg == s # <<>> /\ Head(s) = CH_MINUS
        ds == IF neg THEN Tail(s) ELSE s
        mag == stripLeadingZeros(ds)
        limit == IF neg THEN STR_minInt64 ELSE STR_maxInt64
    IN
    IF ds = <<>> \/ ~allDigits(ds) THEN [err |-> TRUE, v |-> Nil]
    ELSE IF Len(mag) > Len(limit)
            \/ (Len(mag) = Len(limit) /\ StringsCompare(mag, limit) > 0)
    THEN [err |-> TRUE, v |-> Nil]
    ELSE [err |-> FALSE, v |-> [neg |-> neg /\ mag # <<>>, digits |-> mag]]

ParseFloat(s) ==
    LET neg == s # <<>> /\ Head(s) = CH_MINUS
        body == IF neg THEN Tail(s) ELSE s
        dots == {i \in 1..Len(body) : body[i] = CH_DOT}
        d == IF dots = {} THEN Len(body) + 1 ELSE CHOOSE i \in dots : \A j \in dots : i <= j
        ip == SubSeq(body, 1, d - 1)
        fp == SubSeq(body, d + 1, Len(body))
    IN
    IF Cardinality(dots) > 1 \/ ~allDigits(ip) \/ ~allDigits(fp) \/ (ip = <<>> /\ fp = <<>>)
    THEN [err |-> TRUE, v |-> Nil]
    ELSE [err |-> FALSE,
          v |-> [neg |-> neg, int |-> stripLeadingZeros(ip), frac |-> stripTrailingZeros(fp)]]

\* strings.ContainsRune
ContainsRune(str, rn) == \E i \in 1..Len(str) : str[i] = rn

-----------------------------------------------------------------------------
(* Parser state                                                            *)

VARIABLES
    input,          \* what was given: the entry point called and the text
    tz,             \* Parser.tz, the tokenizer
    tkbuf,          \* Parser.tkbuf, the tokens pushed back
    frames,         \* the call stack of parse functions, innermost last
    ret,            \* the (value, error) pair the last return gave
    status,         \* "running", "done", "panic"; "types", "infer", "check" elsewhere
    tzErr,          \* the first error Next returned, Nil before
    readsAfterErr,  \* number of Parser.read calls made after tzErr
    tyIn,           \* type algebra: the arguments
    tyOut,          \* type algebra: the results
    inf,            \* inference of one ExpNode, item by item
    modules,        \* TypeCheck: the modules given
    runs,           \* TypeCheck: the state of each run
    tok             \* the tokenizer alone: one text, Next called again and again

parserVars == <<input, tz, tkbuf, frames, ret, status, tzErr, readsAfterErr>>
typeVars == <<tyIn, tyOut>>
inferVars == <<inf>>
checkVars == <<modules, runs, tok>>
vars == <<input, tz, tkbuf, frames, ret, status, tzErr, readsAfterErr,
          tyIn, tyOut, inf, modules, runs, tok>>

\* Capacity of the fixed slices the parse functions fill by index.
FuncsCap == 8
ArgsCap == 8
BodiesCap == 8
NodesCap == 8

ParserError(tk, msg) == [kind |-> "ParserError", Token |-> tk, Msg |-> msg]

\* Parser.read with Parser.readbuf: a pushed-back token if there is one,
\* else the tokenizer's next token.  next tells whether Next was called.
pRead(t, buf) ==
    IF Len(buf) # 0
    THEN [tz |-> t, tkbuf |-> Tail(buf), tk |-> Head(buf), err |-> Nil,
          panic |-> FALSE, read |-> TRUE, next |-> FALSE]
    ELSE LET n == tzNext(t) IN
         [tz |-> n.t, tkbuf |-> buf, tk |-> n.tok, err |-> n.err,
          panic |-> n.panic, read |-> TRUE, next |-> TRUE]

\* The token is pushed back twice.
pUnread_twice(buf, tk) == Append(Append(buf, tk), tk)

\* Parser.unread
pUnread(buf, tk) == Append(buf, tk)

\* A step that reads no token.
noRead == [tz |-> tz, tkbuf |-> tkbuf, tk |-> Nil, err |-> Nil,
           panic |-> FALSE, read |-> FALSE, next |-> FALSE]

top == frames[Len(frames)]

At(fn, pc) ==
    /\ status = "running"
    /\ frames # <<>>
    /\ top.fn = fn
    /\ top.pc = pc

\* What a step does with the call stack.
Goto(f) == [op |-> "goto", frame |-> f]
Call(f, callee) == [op |-> "call", frame |-> f, callee |-> callee]
Return(val, err) == [op |-> "return", val |-> val, err |-> err]
Panic(msg) == [op |-> "panic", msg |-> msg]

\* Dereferencing tk when it is nil panics.
Deref(tk, out) == IF tk = Nil THEN Panic("nil pointer dereference") ELSE out

\* A step that also pushes tk back (Parser.unread) before it goes on.
Unread(tk, out) == [unread |-> tk] @@ out

Do(r, out0) ==
    LET out == IF r.panic THEN Panic("BUG t.rn is not empty!") ELSE out0 IN
    /\ tz' = r.tz
    /\ tkbuf' = IF "unread" \in DOMAIN out THEN pUnread(r.tkbuf, out.unread)
                ELSE r.tkbuf
    /\ tzErr' = IF tzErr = Nil /\ r.next /\ r.err # Nil THEN r.err ELSE tzErr
    /\ readsAfterErr' = IF tzErr # Nil /\ r.read THEN readsAfterErr + 1
                        ELSE readsAfterErr
    /\ CASE out.op = "goto" ->
              /\ frames' = [frames EXCEPT ![Len(frames)] = out.frame]
              /\ ret' = Nil
              /\ status' = "running"
         [] out.op = "call" ->
              /\ frames' = Append([frames EXCEPT ![Len(frames)] = out.frame],
                                  out.callee)
              /\ ret' = Nil
              /\ status' = "running"
         [] out.op = "return" ->
              /\ frames' = SubSeq(frames, 1, Len(frames) - 1)
              /\ ret' = [val |-> out.val, err |-> out.err]
              /\ status' = IF Len(frames) = 1 THEN "done" ELSE "running"
         [] out.op = "panic" ->
              /\ frames' = frames
              /\ ret' = [panic |-> out.msg]
              /\ status' = "panic"
    /\ UNCHANGED <<input, tyIn, tyOut, inf, modules, runs, tok>>

\* The frames a call starts with.
frameFuncs == [fn |-> "parseFuncs", pc |-> "loop", funcs |-> <<>>]
frameFunc == [fn |-> "parseFunc", pc |-> "func", firsttk |-> Nil, funcname |-> <<>>,
              args |-> <<>>, rets |-> <<>>, bodies |-> <<>>]
frameArg == [fn |-> "parseArg", pc |-> "lparen", aname |-> <<>>]
frameType == [fn |-> "parseType", pc |-> "start", tk |-> Nil, types |-> <<>>]
frameExp == [fn |-> "parseExp", pc |-> "loop", firsttk |-> Nil, nodes |-> <<>>]
frameData == [fn |-> "parseData", pc |-> "start"]

\* A step of a parse function that begins with p.read(): Op(f, r) says what
\* the function does in frame f when the read gives r.
ReadStep(Op(_, _)) ==
    \E r \in {pRead(tz, tkbuf)} : \E out \in {Op(top, r)} : Do(r, out)

\* A step that begins where a called parse function has returned rt.
ReturnStep(Op(_, _)) ==
    \E out \in {Op(top, ret)} : Do(noRead, out)

-----------------------------------------------------------------------------
(* Parser.parseFuncs                                                       *)

parseFuncs_loopStep(f, r) ==
    LET tk == r.tk IN
    IF r.err # Nil THEN Return(Nil, r.err)
    ELSE IF tk.Type = TT_EOF THEN Return(f.funcs, Nil)
    ELSE IF tk.Type # TT_LPAREN
    THEN Return(Nil, ParserError(tk, "Expected lparen"))
    ELSE Unread(tk, Call([f EXCEPT !.pc = "afterFunc"], frameFunc))

parseFuncs_loop ==
    /\ At("parseFuncs", "loop")
    /\ ReadStep(parseFuncs_loopStep)

parseFuncs_afterFuncStep(f, rt) ==
    IF rt.err # Nil THEN Return(Nil, rt.err)
    ELSE IF rt.val = Nil \/ rt.val.node # "Func"
    THEN Panic("BUG: did not get FuncNode")
    ELSE IF Len(f.funcs) >= FuncsCap THEN Panic("index out of range")
    ELSE Goto([f EXCEPT !.pc = "loop", !.funcs = Append(@, rt.val)])

parseFuncs_afterFunc ==
    /\ At("parseFuncs", "afterFunc")
    /\ ReturnStep(parseFuncs_afterFuncStep)

-----------------------------------------------------------------------------
(* Parser.parseFunc                                                        *)

parseFunc_funcStep(f, r) ==
    LET tk == r.tk IN
    IF r.err # Nil THEN Return(Nil, r.err)
    ELSE IF tk.Type # TT_FUNC
    THEN Return(Nil, ParserError(tk, "Expected func"))
    ELSE Goto([f EXCEPT !.pc = "name", !.firsttk = tk])

parseFunc_func ==
    /\ At("parseFunc", "func")
    /\ ReadStep(parseFunc_funcStep)

\* Any identifier is taken as the name.
parseFunc_nameStep_anyName(f, r) ==
    LET tk == r.tk IN
    IF r.err # Nil THEN Return(Nil, r.err)
    ELSE IF tk.Type # TT_IDENT
    THEN Return(Nil, ParserError(tk, "Expected identifier"))
    ELSE Goto([f EXCEPT !.pc = "lbracket1", !.funcname = tk.SVal])

parseFunc_nameStep(f, r) ==
    LET tk == r.tk IN
    IF r.err # Nil THEN Return(Nil, r.err)
    ELSE IF tk.Type # TT_IDENT
    THEN Return(Nil, ParserError(tk, "Expected identifier"))
    ELSE IF ContainsRune(tk.SVal, CH_COLON)
    THEN Return(Nil, ParserError(tk, "colon is not allowed in identifiers in this context"))
    ELSE Goto([f EXCEPT !.pc = "lbracket1", !.funcname = tk.SVal])

parseFunc_name ==
    /\ At("parseFunc", "name")
    /\ ReadStep(parseFunc_nameStep)

parseFunc_lbracket1Step(f, r) ==
    LET tk == r.tk IN
    IF r.err # Nil THEN Return(Nil, r.err)
    ELSE IF tk.Type # TT_LBRACKET
    THEN Return(Nil, ParserError(tk, "Expected lbracket"))
    ELSE Goto([f EXCEPT !.pc = "args"])

parseFunc_lbracket1 ==
    /\ At("parseFunc", "lbracket1")
    /\ ReadStep(parseFunc_lbracket1Step)

parseFunc_argsStep(f, r) ==
    LET tk == r.tk IN
    IF r.err # Nil THEN Return(Nil, r.err)
    ELSE IF tk.Type = TT_RBRACKET
    THEN Goto([f EXCEPT !.pc = "lbracket2"])
    ELSE IF tk.Type = TT_LPAREN
    THEN Unread(tk, Call([f EXCEPT !.pc = "afterArg"], frameArg))
    ELSE Return(Nil, ParserError(tk, "Expected lparen or rparen"))

parseFunc_args ==
    /\ At("parseFunc", "args")
    /\ ReadStep(parseFunc_argsStep)

parseFunc_afterArgStep(f, rt) ==
    IF rt.err # Nil THEN Return(Nil, rt.err)
    ELSE IF Len(f.args) >= ArgsCap THEN Panic("index out of range")
    ELSE Goto([f EXCEPT !.pc = "args", !.args = Append(@, rt.val)])

parseFunc_afterArg ==
    /\ At("parseFunc", "afterArg")
    /\ ReturnStep(parseFunc_afterArgStep)

parseFunc_lbracket2Step(f, r) ==
    LET tk == r.tk IN
    IF r.err # Nil THEN Return(Nil, r.err)
    ELSE IF tk.Type # TT_LBRACKET
    THEN Return(Nil, ParserError(tk, "Expected lbracket"))
    ELSE Goto([f EXCEPT !.pc = "rets"])

parseFunc_lbracket2 ==
    /\ At("parseFunc", "lbracket2")
    /\ ReadStep(parseFunc_lbracket2Step)

parseFunc_retsStep(f, r) ==
    LET tk == r.tk IN
    IF r.err # Nil THEN Return(Nil, r.err)
    ELSE IF tk.Type = TT_RBRACKET
    THEN Goto([f EXCEPT !.pc = "lcbracket"])
    ELSE Unread(tk, Call([f EXCEPT !.pc = "afterRet"], frameType))

parseFunc_rets ==
    /\ At("parseFunc", "rets")
    /\ ReadStep(parseFunc_retsStep)

parseFunc_afterRetStep(f, rt) ==
    IF rt.err # Nil THEN Return(Nil, rt.err)
    ELSE Goto([f EXCEPT !.pc = "rets", !.rets = Append(@, rt.val)])

parseFunc_afterRet ==
    /\ At("parseFunc", "afterRet")
    /\ ReturnStep(parseFunc_afterRetStep)

\* The error of this read is not looked at: tk.Type is read at once.
parseFunc_lcbracketStep(f, r) ==
    LET tk == r.tk IN
    Deref(tk,
    IF tk # Nil /\ tk.Type # TT_LCBRACKET
    THEN Return(Nil, ParserError(tk, "Expected lcbracket"))
    ELSE Goto([f EXCEPT !.pc = "body"]))

parseFunc_lcbracket ==
    /\ At("parseFunc", "lcbracket")
    /\ ReadStep(parseFunc_lcbracketStep)

parseFunc_bodyStep(f, r) ==
    LET tk == r.tk IN
    IF r.err # Nil THEN Return(Nil, r.err)
    ELSE IF tk.Type = TT_RCBRACKET
    THEN Return(FuncNode(f.funcname, f.args, f.rets, f.bodies, f.firsttk), Nil)
    ELSE IF tk.Type = TT_IF
    THEN Unread(tk, Panic("BUG"))
    ELSE Unread(tk, Call([f EXCEPT !.pc = "afterExp"], frameExp))

parseFunc_body ==
    /\ At("parseFunc", "body")
    /\ ReadStep(parseFunc_bodyStep)

parseFunc_afterExpStep(f, rt) ==
    IF rt.err # Nil THEN Return(Nil, rt.err)
    ELSE IF Len(f.bodies) >= BodiesCap THEN Panic("index out of range")
    ELSE Goto([f EXCEPT !.pc = "body", !.bodies = Append(@, rt.val)])

parseFunc_afterExp ==
    /\ At("parseFunc", "afterExp")
    /\ ReturnStep(parseFunc_afterExpStep)

-----------------------------------------------------------------------------
(* Parser.parseArg.  An error of the first two reads is answered with      *)
(* (VoidArg, nil), as in the code.                                         *)

parseArg_lparenStep(f, r) ==
    LET tk == r.tk IN
    IF r.err # Nil THEN Return(VoidArg, Nil)
    ELSE IF tk.Type # TT_LPAREN
    THEN Return(VoidArg, ParserError(tk, "Expected lparen"))
    ELSE Goto([f EXCEPT !.pc = "name"])

parseArg_lparen ==
    /\ At("parseArg", "lparen")
    /\ ReadStep(parseArg_lparenStep)

parseArg_nameStep(f, r) ==
    LET tk == r.tk IN
    IF r.err # Nil THEN Return(VoidArg, Nil)
    ELSE IF tk.Type # TT_IDENT
    THEN Return(VoidArg, ParserError(tk, "Expected identifier"))
    ELSE Call([f EXCEPT !.pc = "afterType", !.aname = tk.SVal], frameType)

parseArg_name ==
    /\ At("parseArg", "name")
    /\ ReadStep(parseArg_nameStep)

parseArg_afterTypeStep(f, rt, r) ==
    LET tk == r.tk IN
    IF rt.err # Nil THEN Return(VoidArg, rt.err)
    ELSE IF r.err # Nil THEN Return(VoidArg, r.err)
    ELSE IF tk.Type # TT_RPAREN
    THEN Return(VoidArg, ParserError(tk, "Expected rparen"))
    ELSE Return(Arg(f.aname, rt.val), Nil)

parseArg_afterType ==
    /\ At("parseArg", "afterType")
    /\ \E r \in {IF ret.err # Nil THEN noRead ELSE pRead(tz, tkbuf)} :
       \E out \in {parseArg_afterTypeStep(top, ret, r)} : Do(r, out)

-----------------------------------------------------------------------------
(* Parser.parseType.  InvalidType is nil.                                  *)

parseType_startStep(f, r) ==
    LET tk == r.tk IN
    IF r.err # Nil THEN Return(Nil, r.err)
    ELSE IF tk.Type = TT_IDENT THEN Return(PrimType(tk.SVal), Nil)
    ELSE IF tk.Type = TT_LCBRACKET
    THEN Goto([f EXCEPT !.pc = "union", !.tk = tk])
    ELSE Return(Nil, ParserError(tk, "is not a type"))

parseType_start ==
    /\ At("parseType", "start")
    /\ ReadStep(parseType_startStep)

\* A union loop that takes a left brace for the start of a member.
parseType_unionStep_nested(f, r) ==
    LET
        tk == r.tk
        u == NewUnionType(f.types)
    IN
    IF r.err # Nil THEN Return(Nil, r.err)
    ELSE IF tk.Type = TT_IDENT \/ tk.Type = TT_LCBRACKET
    THEN Unread(tk, Call([f EXCEPT !.pc = "afterMember"], frameType))
    ELSE IF tk.Type = TT_RCBRACKET
    THEN IF u.err # Nil
         THEN Return(Nil, ParserError(f.tk, u.err))
         ELSE Return(u.ut, Nil)
    ELSE Return(Nil, ParserError(tk, "Expected identifier"))

parseType_unionStep(f, r) ==
    LET
        tk == r.tk
        u == NewUnionType(f.types)
    IN
    IF r.err # Nil THEN Return(Nil, r.err)
    ELSE IF tk.Type = TT_IDENT
    THEN Unread(tk, Call([f EXCEPT !.pc = "afterMember"], frameType))
    ELSE IF tk.Type = TT_LCBRACKET
    THEN Return(Nil, ParserError(tk, "Union types can not be nested"))
    ELSE IF tk.Type = TT_RCBRACKET
    THEN IF u.err # Nil
         THEN Return(Nil, ParserError(f.tk, u.err))
         ELSE Return(u.ut, Nil)
    ELSE Return(Nil, ParserError(tk, "Expected identifier"))

parseType_union ==
    /\ At("parseType", "union")
    /\ ReadStep(parseType_unionStep)

parseType_afterMemberStep(f, rt) ==
    IF rt.err # Nil THEN Return(Nil, rt.err)
    ELSE Goto([f EXCEPT !.pc = "union", !.types = Append(@, rt.val)])

parseType_afterMember ==
    /\ At("parseType", "afterMember")
    /\ ReturnStep(parseType_afterMemberStep)

-----------------------------------------------------------------------------
(* Parser.parseExp and Parser.parseData                                    *)

parseExp_loopStep(f, r) ==
    LET
        tk == r.tk
        firsttk == IF f.firsttk = Nil THEN tk ELSE f.firsttk
    IN
    IF r.err # Nil THEN Return(Nil, r.err)
    ELSE IF tk.Type \in {TT_LITINT, TT_LITFLOAT, TT_IDENT, TT_QUOT}
    THEN Unread(tk, Call([f EXCEPT !.pc = "afterData", !.firsttk = firsttk],
                         frameData))
    ELSE IF tk.Type = TT_SEMICOLON
    THEN Return(ExpNode(f.nodes, firsttk), Nil)
    ELSE Return(Nil, ParserError(tk, "Expected literal, identifier, semicolon or quote"))

parseExp_loop ==
    /\ At("parseExp", "loop")
    /\ ReadStep(parseExp_loopStep)

parseExp_afterDataStep(f, rt) ==
    IF rt.err # Nil THEN Return(Nil, rt.err)
    ELSE IF Len(f.nodes) >= NodesCap THEN Panic("index out of range")
    ELSE Goto([f EXCEPT !.pc = "loop", !.nodes = Append(@, rt.val)])

parseExp_afterData ==
    /\ At("parseExp", "afterData")
    /\ ReturnStep(parseExp_afterDataStep)

parseData_startStep(f, r) ==
    LET tk == r.tk IN
    IF r.err # Nil THEN Return(Nil, r.err)
    ELSE IF tk.Type = TT_LITINT
    THEN LET iv == ParseInt(tk.SVal) IN
         IF iv.err
         THEN Return(Nil, ParserError(tk, "is not a valid integer literal"))
         ELSE Return(LitIntNode(iv.v, tk), Nil)
    ELSE IF tk.Type = TT_LITFLOAT
    THEN LET fv == ParseFloat(tk.SVal) IN
         IF fv.err
         THEN Return(Nil, ParserError(tk, "is not a valid float literal"))
         ELSE Return(LitFloatNode(fv.v, tk), Nil)
    ELSE IF tk.Type = TT_IDENT THEN Return(VerbNode(tk.SVal, tk), Nil)
    ELSE IF tk.Type = TT_QUOT THEN Goto([f EXCEPT !.pc = "quot"])
    ELSE Return(Nil, ParserError(tk, "Expected literal"))

parseData_start ==
    /\ At("parseData", "start")
    /\ ReadStep(parseData_startStep)

\* The error of this read is not looked at: tk.Type is read at once.
parseData_quotStep(f, r) ==
    LET tk == r.tk IN
    Deref(tk,
    IF tk # Nil /\ tk.Type # TT_IDENT
    THEN Return(Nil, ParserError(tk, "Expected identifier"))
    ELSE Return(QuotNode(IF tk = Nil THEN Nil ELSE tk.SVal, tk), Nil))

parseData_quot ==
    /\ At("parseData", "quot")
    /\ ReadStep(parseData_quotStep)

-----------------------------------------------------------------------------
(* The texts given to the parser.  A text is written as its lexemes, which *)
(* Join puts together with one space between two.                          *)

MaxItems == 9        \* most arguments, body expressions and items in a text
MaxProgFuncs == 2    \* most functions in a program text

STR_main == <<109, 97, 105, 110>>
STR_f == <<102>>
STR_g == <<103>>
STR_h == <<104>>
STR_a == <<97>>
STR_foo == <<102, 111, 111>>
STR_bar == <<98, 97, 114>>
STR_m_f == <<109, 58, 102>>
STR_5 == <<53>>
STR_5_0 == <<53, 46, 48>>
STR_minus_dot == <<45, 46>>
LP == <<CH_LPAREN>>
RP == <<CH_RPAREN>>
LB == <<CH_LBRACKET>>
RB == <<CH_RBRACKET>>
LCB == <<CH_LCBRACKET>>
RCB == <<CH_RCBRACKET>>
SEMI == <<CH_SEMICOLON>>
QUOT == <<CH_QUOT>>
DOLLAR == <<36>>

RECURSIVE Join(_)
Join(lexs) ==
    IF lexs = <<>> THEN <<>>
    ELSE IF Len(lexs) = 1 THEN lexs[1]
    ELSE lexs[1] \o <<CH_SPACE>> \o Join(Tail(lexs))

RECURSIVE Rep(_, _)
Rep(s, n) == IF n = 0 THEN <<>> ELSE s \o Rep(s, n - 1)

RECURSIVE Flatten(_)
Flatten(ss) == IF ss = <<>> THEN <<>> ELSE Head(ss) \o Flatten(Tail(ss))

SeqsUpTo(S, n) == UNION {[1..k -> S] : k \in 0..n}

\* func NAME [ args ] [ rets ] { body }
FuncLex(name, args, rets, body) ==
    <<STR_func, name, LB>> \o args \o <<RB, LB>> \o rets \o <<RB, LCB>> \o body \o <<RCB>>

ArgLex == <<LP, STR_a, STR_int, RP>>
UnionLex == <<LCB, STR_int, STR_float, RCB>>
RetLexs == <<<<>>, <<STR_int>>, <<STR_float, STR_int>>, UnionLex>>
ExpLex == <<STR_5, STR_foo, SEMI>>

\* Well-formed functions: a arguments, return types number r of RetLexs,
\* b body expressions.
WellFormedFunc(name, a, r, b) ==
    FuncLex(name, Rep(ArgLex, a), RetLexs[r], Rep(ExpLex, b))

FuncNames == <<STR_f, STR_g, STR_h>>

\* Program texts: n well-formed functions and nothing else.
ProgramShapes == {<<0, 1, 0>>, <<1, 2, 1>>}

ProgramInputs ==
    {[entry |-> "Funcs",
      text |-> Join(Flatten([i \in 1..Len(shapes) |->
                  WellFormedFunc(FuncNames[i], shapes[i][1], shapes[i][2], shapes[i][3])])),
      program |-> TRUE,
      names |-> SubSeq(FuncNames, 1, Len(shapes))]
     : shapes \in SeqsUpTo(ProgramShapes, MaxProgFuncs)}

textInput(entry, lexs) ==
    [entry |-> entry, text |-> Join(lexs), program |-> FALSE, names |-> <<>>]

FuncInputs ==
    {textInput("parseFunc", WellFormedFunc(STR_main, a, r, b))
     : a \in 0..MaxItems, r \in 1..Len(RetLexs), b \in 0..MaxItems}

Items == {<<STR_5>>, <<STR_5_0>>, <<STR_foo>>, <<QUOT, STR_foo>>, <<STR_minus_dot>>}

ExpInputs ==
    {textInput("parseExp", Flatten(its) \o <<SEMI>>) : its \in SeqsUpTo(Items, 2)}
    \cup {textInput("parseExp", Rep(<<STR_5>>, k) \o <<SEMI>>) : k \in 0..MaxItems}

TypeInputs ==
    {textInput("parseType", lexs) :
        lexs \in {<<STR_int>>, UnionLex, <<LCB, STR_int, RCB>>, <<LCB, RCB>>,
                  <<LCB, STR_int, STR_int, RCB>>,
                  <<LCB, STR_int, LCB, STR_foo, STR_bar, RCB, STR_float, RCB>>,
                  <<SEMI>>}}

\* Texts that stop early, or go on with a rune the tokenizer rejects,
\* after j lexemes of a text.
CutBases ==
    {<<"parseFunc", FuncLex(STR_main, ArgLex, UnionLex, <<STR_5, QUOT, STR_foo, SEMI>>)>>,
     <<"parseFunc", FuncLex(STR_m_f, <<>>, <<>>, <<>>)>>,
     <<"parseExp", <<STR_5, QUOT, STR_foo, SEMI>>>>,
     <<"parseType", UnionLex>>,
     <<"Funcs", <<LP, STR_a>>>>,
     <<"Funcs", WellFormedFunc(STR_f, 1, 2, 1)>>}

CutInputs ==
    UNION {{textInput(b[1], SubSeq(b[2], 1, j) \o tail) :
               j \in 0..Len(b[2]), tail \in {<<>>, <<DOLLAR>>}}
           : b \in CutBases}

\* Functions whose arguments and body expressions differ from one another:
\* argument i is named by i letters a and typed int or float in turn, and
\* the body expressions go through three forms in turn.
declArgName(i) == Rep(STR_a, i)
declArgType(i) == IF i % 2 = 1 THEN STR_int ELSE STR_float
declArgLex(i) == <<LP, declArgName(i), declArgType(i), RP>>
declExpLex(i) ==
    CASE i % 3 = 1 -> <<STR_5, STR_foo, SEMI>>
      [] i % 3 = 2 -> <<QUOT, STR_foo, STR_5_0, SEMI>>
      [] OTHER -> <<SEMI>>
DeclFunc(a, r, b) ==
    FuncLex(STR_main, Flatten([i \in 1..a |-> declArgLex(i)]), RetLexs[r],
            Flatten([i \in 1..b |-> declExpLex(i)]))

DeclInputs ==
    {textInput("parseFunc", DeclFunc(a, r, b))
     : a \in 0..MaxItems, r \in 1..Len(RetLexs), b \in 0..MaxItems}

ParseInputs ==
    ProgramInputs \cup FuncInputs \cup ExpInputs \cup TypeInputs \cup CutInputs
    \cup DeclInputs

-----------------------------------------------------------------------------
(* The parser as a state machine                                           *)

idleTypes == tyIn = Nil /\ tyOut = Nil
idleInfer == inf = Nil
idleCheck == modules = Nil /\ runs = Nil
idleTok == tok = Nil

InitParse ==
    /\ input \in ParseInputs
    /\ tz = NewTokenizerString(input.text)
    /\ tkbuf = <<>>
    /\ frames = <<>>
    /\ ret = Nil
    /\ status = "idle"
    /\ tzErr = Nil
    /\ readsAfterErr = 0
    /\ idleTypes /\ idleInfer /\ idleCheck /\ idleTok

\* The call of the entry point: Funcs, parseFunc, parseExp or parseType.
CallEntry ==
    /\ status = "idle"
    /\ input # Nil
    /\ frames' = << CASE input.entry = "Funcs" -> frameFuncs
                      [] input.entry = "parseFunc" -> frameFunc
                      [] input.entry = "parseExp" -> frameExp
                      [] input.entry = "parseType" -> frameType >>
    /\ status' = "running"
    /\ UNCHANGED <<input, tz, tkbuf, ret, tzErr, readsAfterErr,
                   tyIn, tyOut, inf, modules, runs, tok>>

NextParse ==
    \/ CallEntry
    \/ parseFuncs_loop
    \/ parseFuncs_afterFunc
    \/ parseFunc_func
    \/ parseFunc_name
    \/ parseFunc_lbracket1
    \/ parseFunc_args
    \/ parseFunc_afterArg
    \/ parseFunc_lbracket2
    \/ parseFunc_rets
    \/ parseFunc_afterRet
    \/ parseFunc_lcbracket
    \/ parseFunc_body
    \/ parseFunc_afterExp
    \/ parseArg_lparen
    \/ parseArg_name
    \/ parseArg_afterType
    \/ parseType_start
    \/ parseType_union
    \/ parseType_afterMember
    \/ parseExp_loop
    \/ parseExp_afterData
    \/ parseData_start
    \/ parseData_quot

SpecParse == InitParse /\ [][NextParse]_vars

-----------------------------------------------------------------------------
(* The type algebra: TypeCmp, TypeEqual and NewUnionType applied to types  *)
(* drawn from a small universe.                                            *)

MaxMembers == 2      \* most members of a union of the universe
MaxListLen == 3      \* longest member list given to NewUnionType

PrimNames == {STR_float, STR_foo, STR_int}
PrimTypes == {PrimType(n) : n \in PrimNames}
FlatTypes == {VoidType} \cup PrimTypes

\* The unions the parser can make: NewUnionType of a list of Prim types.
UnionTypes ==
    {NewUnionType(l).ut :
        l \in {m \in SeqsUpTo(PrimTypes, MaxMembers) : NewUnionType(m).err = Nil}}

TypeUniverse == FlatTypes \cup UnionTypes

\* The lists a permutation p of 1..Len(l) makes of l.
Perms(n) == {p \in [1..n -> 1..n] : \A i, j \in 1..n : p[i] = p[j] => i = j}
Permuted(l, p) == [i \in 1..Len(l) |-> l[p[i]]]

InitTypes ==
    /\ tyIn \in [a : TypeUniverse, b : TypeUniverse, c : TypeUniverse, list : {<<>>}]
              \cup [a : {VoidType}, b : {VoidType}, c : {VoidType},
                    list : SeqsUpTo(TypeUniverse, MaxListLen) \ {<<>>}]
    /\ tyOut = Nil
    /\ input = Nil /\ tz = Nil /\ tkbuf = <<>> /\ frames = <<>> /\ ret = Nil
    /\ status = "types" /\ tzErr = Nil /\ readsAfterErr = 0
    /\ idleInfer /\ idleCheck /\ idleTok

\* TypeCmp on each pair of a, b, c.
CallTypeCmp ==
    /\ status = "types"
    /\ tyOut = Nil
    /\ tyIn.list = <<>>
    /\ tyOut' = [op |-> "TypeCmp",
                 aa |-> TypeCmp(tyIn.a, tyIn.a),
                 ab |-> TypeCmp(tyIn.a, tyIn.b),
                 ba |-> TypeCmp(tyIn.b, tyIn.a),
                 bc |-> TypeCmp(tyIn.b, tyIn.c),
                 ac |-> TypeCmp(tyIn.a, tyIn.c)]
    /\ UNCHANGED <<input, tz, tkbuf, frames, ret, status, tzErr, readsAfterErr,
                   tyIn, inf, modules, runs, tok>>

CallTypeEqual ==
    /\ status = "types"
    /\ tyOut = Nil
    /\ tyIn.list = <<>>
    /\ tyIn.c = tyIn.a
    /\ tyOut' = [op |-> "TypeEqual",
                 ab |-> TypeEqual(tyIn.a, tyIn.b),
                 ba |-> TypeEqual(tyIn.b, tyIn.a)]
    /\ UNCHANGED <<input, tz, tkbuf, frames, ret, status, tzErr, readsAfterErr,
                   tyIn, inf, modules, runs, tok>>

\* NewUnionType on the list and on one permutation of it.
CallNewUnionType ==
    /\ status = "types"
    /\ tyOut = Nil
    /\ tyIn.list # <<>>
    /\ \E p \in Perms(Len(tyIn.list)) :
          tyOut' = [op |-> "NewUnionType",
                    perm |-> Permuted(tyIn.list, p),
                    res |-> NewUnionType(tyIn.list),
                    resPerm |-> NewUnionType(Permuted(tyIn.list, p))]
    /\ UNCHANGED <<input, tz, tkbuf, frames, ret, status, tzErr, readsAfterErr,
                   tyIn, inf, modules, runs, tok>>

\* TypeCompatibleWith of a for b, and of a for itself.
CallTypeCompatibleWith ==
    /\ status = "types"
    /\ tyOut = Nil
    /\ tyIn.list = <<>>
    /\ tyIn.c = tyIn.a
    /\ tyOut' = [op |-> "TypeCompatibleWith",
                 ab |-> TypeCompatibleWith(tyIn.a, tyIn.b),
                 aa |-> TypeCompatibleWith(tyIn.a, tyIn.a)]
    /\ UNCHANGED <<input, tz, tkbuf, frames, ret, status, tzErr, readsAfterErr,
                   tyIn, inf, modules, runs, tok>>

NextTypes == CallTypeCmp \/ CallTypeEqual \/ CallNewUnionType \/ CallTypeCompatibleWith

SpecTypes == InitTypes /\ [][NextTypes]_vars

-----------------------------------------------------------------------------
(* InferTypes on an ExpNode, one item of exp.Exps at a time.  inf is       *)
(*   [exp, worlds, i, stack, err, before, done]                            *)
(* with i the number of items processed, stack and err what the loop holds *)
(* after them and before the stack the last item was applied to.           *)

MaxExpLen == 3       \* most items of an expression
MaxStackLen == 2     \* most entries of the stack InferTypes is given

STR_m_g == <<109, 58, 103>>
STR_m_u == <<109, 58, 117>>
STR_nope == <<110, 111, 112, 101>>

tokenAt(sval, type, line, char) ==
    [SVal |-> sval, Type |-> type, Pos |-> [LineNumber |-> line, CharNumber |-> char]]

UnionFloatInt == UnionType(<<PrimType(STR_float), PrimType(STR_int)>>)

\* The type world of a module m with
\*   func f [(a int) (b float)] [float int], func g [] [int] and
\*   func u [(a {float int})] [].
sampleWorld ==
    (STR_m_f :> FuncType(<<PrimType(STR_int), PrimType(STR_float)>>,
                         <<PrimType(STR_float), PrimType(STR_int)>>))
    @@ (STR_m_g :> FuncType(<<>>, <<PrimType(STR_int)>>))
    @@ (STR_m_u :> FuncType(<<UnionFloatInt>>, <<>>))

ItemNodes ==
    {LitIntNode([neg |-> FALSE, digits |-> STR_5], tokenAt(STR_5, TT_LITINT, 1, 2)),
     LitFloatNode([neg |-> FALSE, int |-> STR_5, frac |-> <<>>],
                  tokenAt(STR_5_0, TT_LITFLOAT, 1, 4)),
     QuotNode(STR_foo, tokenAt(STR_foo, TT_IDENT, 1, 5))}
    \cup {VerbNode(v, tokenAt(v, TT_IDENT, 1, 1 + Len(v)))
          : v \in {STR_square_i, STR_m_f, STR_m_g, STR_m_u, STR_nope}}

StackTypes == {PrimType(STR_int), PrimType(STR_float), UnionFloatInt}

InitInfer ==
    /\ \E exps \in SeqsUpTo(ItemNodes, MaxExpLen), st \in SeqsUpTo(StackTypes, MaxStackLen) :
          inf = [exp |-> ExpNode(exps, IF exps = <<>> THEN tokenAt(SEMI, TT_SEMICOLON, 1, 2)
                                       ELSE exps[1].Token),
                 worlds |-> NewTypeWorlds(builtins, sampleWorld),
                 i |-> 0, stack |-> st, err |-> Nil, before |-> st, done |-> FALSE]
    /\ input = Nil /\ tz = Nil /\ tkbuf = <<>> /\ frames = <<>> /\ ret = Nil
    /\ status = "infer" /\ tzErr = Nil /\ readsAfterErr = 0
    /\ idleTypes /\ idleCheck /\ idleTok

\* One iteration of the loop over exp.Exps.
InferNextItem ==
    /\ status = "infer"
    /\ ~inf.done
    /\ inf.err = Nil
    /\ inf.i < Len(inf.exp.Exps)
    /\ \E r \in {InferItem(inf.exp.Exps[inf.i + 1], inf.stack, inf.worlds, inf.exp.Token)} :
          inf' = [inf EXCEPT !.i = @ + 1, !.stack = r.stack, !.err = r.err,
                             !.before = inf.stack]
    /\ UNCHANGED <<input, tz, tkbuf, frames, ret, status, tzErr, readsAfterErr,
                   tyIn, tyOut, modules, runs, tok>>

\* The return of InferTypes: (nil, err) out of the loop, (stack, nil) after it.
InferReturn ==
    /\ status = "infer"
    /\ ~inf.done
    /\ inf.err # Nil \/ inf.i = Len(inf.exp.Exps)
    /\ inf' = [inf EXCEPT !.done = TRUE]
    /\ UNCHANGED <<input, tz, tkbuf, frames, ret, status, tzErr, readsAfterErr,
                   tyIn, tyOut, modules, runs, tok>>

NextInfer == InferNextItem \/ InferReturn

SpecInfer == InitInfer /\ [][NextInfer]_vars

-----------------------------------------------------------------------------
(* TypeCheck on a map of modules, run twice on the same map.  runs[r] is   *)
(*   [pc, typeWorlds, modsLeft, cur, fnsLeft, err]                         *)
(* with pc "start" before the first loop, "loop" in the second loop,       *)
(* "returned" and "panic"; modsLeft the keys the range over modules has    *)
(* not given yet, cur the key it is at (a set of at most one key) and      *)
(* fnsLeft the keys of v.Funcs the inner range has not given yet.  Go      *)
(* gives the keys of a map in an order that is not specified, so each      *)
(* range takes any key that is left.                                       *)

MaxModFuncs == 2     \* most functions of a module

STR_m == <<109>>
STR_n == <<110>>
STR_t == <<116>>
STR_r == <<114>>
STR_c == <<99>>
STR_p == <<112>>
STR_q == <<113>>
STR_s == <<115>>

ModuleNames == {STR_m, STR_n}

funcToken == tokenAt(STR_func, TT_FUNC, 1, 5)
litInt5 == LitIntNode([neg |-> FALSE, digits |-> STR_5], tokenAt(STR_5, TT_LITINT, 1, 2))
litFloat5 ==
    LitFloatNode([neg |-> FALSE, int |-> STR_5, frac |-> <<>>],
                 tokenAt(STR_5_0, TT_LITFLOAT, 1, 4))
verb(v) == VerbNode(v, tokenAt(v, TT_IDENT, 1, 1 + Len(v)))
exp(items) == ExpNode(items, items[1].Token)

\*   func g [] [int] { 5; }
\*   func t [] [int {float int}] { 5; 5; }
\*   func a [] [int] { }                      no value for one return type
\*   func r [] [int] { 5.0; }                 float returned as int
\*   func c [] [int] { 5.0 square.i; }        float given to square.i
\*   func p [(a int)] [int] { square.i; }     uses its argument
\*   func q [] [int] { m:g; }                 calls g of module m
FuncCatalogue ==
    {FuncNode(STR_g, <<>>, <<PrimType(STR_int)>>, <<exp(<<litInt5>>)>>, funcToken),
     FuncNode(STR_t, <<>>, <<PrimType(STR_int), UnionFloatInt>>,
              <<exp(<<litInt5>>), exp(<<litInt5>>)>>, funcToken),
     FuncNode(STR_a, <<>>, <<PrimType(STR_int)>>, <<>>, funcToken),
     FuncNode(STR_r, <<>>, <<PrimType(STR_int)>>, <<exp(<<litFloat5>>)>>, funcToken),
     FuncNode(STR_c, <<>>, <<PrimType(STR_int)>>,
              <<exp(<<litFloat5, verb(STR_square_i)>>)>>, funcToken),
     FuncNode(STR_p, <<Arg(STR_a, PrimType(STR_int))>>, <<PrimType(STR_int)>>,
              <<exp(<<verb(STR_square_i)>>)>>, funcToken),
     FuncNode(STR_q, <<>>, <<PrimType(STR_int)>>, <<exp(<<verb(STR_m_g)>>)>>, funcToken)}

\* The Module LoadModule makes of a directory mname whose files hold fns.
Module(mname, fns) ==
    [Name |-> mname,
     Funcs |-> [k \in {fn.Name : fn \in fns} |->
                   mkFunc(CHOOSE fn \in fns : fn.Name = k)]]

FuncSets == {fns \in SUBSET FuncCatalogue : Cardinality(fns) <= MaxModFuncs}

ModuleMaps ==
    UNION {[names -> FuncSets] : names \in SUBSET ModuleNames}

newRun ==
    [pc |-> "start", typeWorlds |-> <<>>, modsLeft |-> {}, cur |-> {},
     fnsLeft |-> {}, err |-> Nil]

InitCheck ==
    /\ \E mm \in ModuleMaps : modules = [k \in DOMAIN mm |-> Module(k, mm[k])]
    /\ runs = <<newRun, newRun>>
    /\ input = Nil /\ tz = Nil /\ tkbuf = <<>> /\ frames = <<>> /\ ret = Nil
    /\ status = "check" /\ tzErr = Nil /\ readsAfterErr = 0
    /\ idleTypes /\ idleInfer /\ idleTok

returned(r) == runs[r].pc \in {"returned", "panic"}

\* The second run starts when the first has returned.
run == IF returned(1) THEN 2 ELSE 1

namesMatch == \A k \in DOMAIN modules : k = modules[k].Name

setRun(new) ==
    /\ runs' = [runs EXCEPT ![run] = new]
    /\ UNCHANGED <<input, tz, tkbuf, frames, ret, status, tzErr, readsAfterErr,
                   tyIn, tyOut, inf, modules, tok>>

\* The first loop and NewTypeWorlds.
TypeCheck_register ==
    /\ status = "check"
    /\ runs[run].pc = "start"
    /\ IF ~namesMatch
       THEN setRun([runs[run] EXCEPT !.pc = "panic"])
       ELSE setRun([runs[run] EXCEPT
                       !.pc = "loop",
                       !.typeWorlds = NewTypeWorlds(builtins, modulesTypeWorld(modules)),
                       !.modsLeft = DOMAIN modules])

\* The second loop gives the next module.
TypeCheck_nextModule ==
    /\ status = "check"
    /\ runs[run].pc = "loop"
    /\ runs[run].cur = {}
    /\ \E k \in runs[run].modsLeft :
          IF k # modules[k].Name
          THEN setRun([runs[run] EXCEPT !.pc = "panic"])
          ELSE setRun([runs[run] EXCEPT
                          !.cur = {k},
                          !.modsLeft = @ \ {k},
                          !.fnsLeft = DOMAIN modules[k].Funcs])

\* The inner loop gives the next function of the module and checks it.
TypeCheck_checkFunc ==
    /\ status = "check"
    /\ runs[run].pc = "loop"
    /\ \E k \in runs[run].cur : \E f \in runs[run].fnsLeft :
          \E e \in {checkFunc(modules[k].Funcs[f], runs[run].typeWorlds)} :
             IF e # Nil
             THEN setRun([runs[run] EXCEPT !.pc = "returned", !.err = e])
             ELSE setRun([runs[run] EXCEPT !.fnsLeft = @ \ {f}])

\* The inner loop has given every function of the module.
TypeCheck_moduleDone ==
    /\ status = "check"
    /\ runs[run].pc = "loop"
    /\ runs[run].cur # {}
    /\ runs[run].fnsLeft = {}
    /\ setRun([runs[run] EXCEPT !.cur = {}])

\* The second loop has given every module: return nil.
TypeCheck_returnNil ==
    /\ status = "check"
    /\ runs[run].pc = "loop"
    /\ runs[run].cur = {}
    /\ runs[run].modsLeft = {}
    /\ setRun([runs[run] EXCEPT !.pc = "returned", !.err = Nil])

NextCheck ==
    \/ TypeCheck_register
    \/ TypeCheck_nextModule
    \/ TypeCheck_checkFunc
    \/ TypeCheck_moduleDone
    \/ TypeCheck_returnNil

SpecCheck == InitCheck /\ [][NextCheck]_vars

\* TypeCheck on modules whose functions call one another:
\*   func g [] [int] { 5; }
\*   func q [] [int] { m:g; }                 calls g of module m
\*   func s [] [int] { g; }                   calls g by its short name
CallCatalogue ==
    {FuncNode(STR_g, <<>>, <<PrimType(STR_int)>>, <<exp(<<litInt5>>)>>, funcToken),
     FuncNode(STR_q, <<>>, <<PrimType(STR_int)>>, <<exp(<<verb(STR_m_g)>>)>>, funcToken),
     FuncNode(STR_s, <<>>, <<PrimType(STR_int)>>, <<exp(<<verb(STR_g)>>)>>, funcToken)}

CallSets == {fns \in SUBSET CallCatalogue : Cardinality(fns) <= MaxModFuncs}

CallMaps == UNION {[names -> CallSets] : names \in SUBSET ModuleNames}

InitCalls ==
    /\ \E mm \in CallMaps : modules = [k \in DOMAIN mm |-> Module(k, mm[k])]
    /\ runs = <<newRun, newRun>>
    /\ input = Nil /\ tz = Nil /\ tkbuf = <<>> /\ frames = <<>> /\ ret = Nil
    /\ status = "check" /\ tzErr = Nil /\ readsAfterErr = 0
    /\ idleTypes /\ idleInfer /\ idleTok

SpecCalls == InitCalls /\ [][NextCheck]_vars

-----------------------------------------------------------------------------
(* TypeWorlds.Lookup of a name in a list of worlds.  tyIn is [worlds, val], *)
(* tyOut is [op, res, worlds] with worlds the list after the call.         *)

MaxWorlds == 3       \* most worlds of a TypeWorlds

LookupNames == {STR_square_i, STR_m_f}
LookupTypes ==
    {FuncType(<<PrimType(STR_int)>>, <<PrimType(STR_int)>>),
     FuncType(<<>>, <<PrimType(STR_float)>>)}

\* The worlds that bind some of the names, each to a type.
TypeWorldSet == UNION {[d -> LookupTypes] : d \in SUBSET LookupNames}

InitLookup ==
    /\ tyIn \in [worlds : SeqsUpTo(TypeWorldSet, MaxWorlds),
                 val : LookupNames \cup {STR_nope}]
    /\ tyOut = Nil
    /\ input = Nil /\ tz = Nil /\ tkbuf = <<>> /\ frames = <<>> /\ ret = Nil
    /\ status = "lookup" /\ tzErr = Nil /\ readsAfterErr = 0
    /\ idleInfer /\ idleCheck /\ idleTok

\* Lookup reads the worlds and writes none.
CallLookup ==
    /\ status = "lookup"
    /\ tyOut = Nil
    /\ tyOut' = [op |-> "Lookup",
                 res |-> Lookup(tyIn.worlds, tyIn.val),
                 worlds |-> tyIn.worlds]
    /\ UNCHANGED <<input, tz, tkbuf, frames, ret, status, tzErr, readsAfterErr,
                   tyIn, inf, modules, runs, tok>>

NextLookup == CallLookup

SpecLookup == InitLookup /\ [][NextLookup]_vars

-----------------------------------------------------------------------------
(* The tokenizer alone: NewTokenizerString(text), then Next until it gives *)
(* an error or a token of kind EOF, as mustError and checkTypes call it.   *)
(* tok is [text, t, toks, err, panic, calls, before, again] with t the     *)
(* tokenizer, toks the tokens returned so far, err the error returned,     *)
(* calls the number of calls of Next made, before the tokenizer as it was  *)
(* at the last call, and again what tokenizing the lexemes of toks joined  *)
(* by single spaces gives (Nil until that is done).                        *)

MaxChunks == 4       \* most chunks of a text given to the tokenizer

STR_NUL == <<0>>
STR_minus == <<CH_MINUS>>
STR_dot == <<CH_DOT>>
STR_percent == <<CH_PERCENT>>
STR_colon == <<CH_COLON>>
STR_space == <<CH_SPACE>>
STR_LF == <<CH_LF>>
STR_CR == <<CH_CR>>

TokChunks ==
    {STR_func, STR_a, STR_5, STR_minus, STR_dot, STR_percent, STR_colon,
     STR_space, STR_LF, SEMI, DOLLAR, STR_NUL}

\* The texts of TestTokenizerSimple, TestTokenizerSpecials and
\* TestTokenizerLits, with 5 for every digit, and a text with a carriage
\* return.
TestTexts ==
    {Flatten(cs) : cs \in
        {<<STR_space, STR_func, STR_LF, STR_space, STR_func, STR_LF, STR_space>>,
         <<LCB, RCB>>, <<STR_func, LP, RP>>,
         <<STR_5, STR_dot, STR_5, STR_func>>,
         <<STR_minus, STR_5, STR_dot, STR_5>>,
         <<STR_5, STR_dot, STR_5, STR_dot, STR_5>>,
         <<STR_a, STR_CR, STR_LF, STR_space, STR_space, DOLLAR>>}}

TokTexts == {Flatten(cs) : cs \in SeqsUpTo(TokChunks, MaxChunks)} \cup TestTexts

\* The loop of mustError and checkTypes: Next until an error or EOF.
RECURSIVE tokenizeFrom(_, _)
tokenizeFrom(t, toks) ==
    LET r == tzNext(t) IN
    IF r.panic THEN [toks |-> toks, err |-> Nil, panic |-> TRUE]
    ELSE IF r.err # Nil THEN [toks |-> toks, err |-> r.err, panic |-> FALSE]
    ELSE IF r.tok.Type = TT_EOF
    THEN [toks |-> Append(toks, r.tok), err |-> Nil, panic |-> FALSE]
    ELSE tokenizeFrom(r.t, Append(toks, r.tok))

tokenize(text) == tokenizeFrom(NewTokenizerString(text), <<>>)

\* The lexemes of the tokens before the final EOF, joined by single spaces.
lexemesOf(toks) == [i \in 1..Len(toks) - 1 |-> toks[i].SVal]

kindsOf(toks) == [i \in 1..Len(toks) |-> toks[i].Type]

\* No tokenizer yet.
InitTok ==
    /\ tok = Nil
    /\ input = Nil /\ tz = Nil /\ tkbuf = <<>> /\ frames = <<>> /\ ret = Nil
    /\ status = "tok" /\ tzErr = Nil /\ readsAfterErr = 0
    /\ idleTypes /\ idleInfer /\ idleCheck

\* NewTokenizerString(text)
TokNew ==
    /\ status = "tok"
    /\ tok = Nil
    /\ \E text \in TokTexts :
          tok' = [text |-> text, t |-> NewTokenizerString(text), toks |-> <<>>,
                  err |-> Nil, panic |-> FALSE, calls |-> 0,
                  before |-> NewTokenizerString(text), again |-> Nil]
    /\ UNCHANGED <<input, tz, tkbuf, frames, ret, status, tzErr, readsAfterErr,
                   tyIn, tyOut, inf, modules, runs>>

tokEOF == tok.toks # <<>> /\ tok.toks[Len(tok.toks)].Type = TT_EOF

tokEnded == tok.err # Nil \/ tok.panic \/ tokEOF

\* One call of Next.
TokNext ==
    /\ status = "tok"
    /\ tok # Nil
    /\ ~tokEnded
    /\ \E r \in {tzNext(tok.t)} :
          tok' = [tok EXCEPT !.t = r.t,
                             !.toks = IF r.tok # Nil THEN Append(@, r.tok) ELSE @,
                             !.err = r.err,
                             !.panic = r.panic,
                             !.calls = @ + 1,
                             !.before = tok.t]
    /\ UNCHANGED <<input, tz, tkbuf, frames, ret, status, tzErr, readsAfterErr,
                   tyIn, tyOut, inf, modules, runs>>

\* After the EOF: the lexemes joined by single spaces are tokenized.
TokAgain ==
    /\ status = "tok"
    /\ tok # Nil
    /\ tokEOF
    /\ tok.again = Nil
    /\ tok' = [tok EXCEPT !.again = tokenize(Join(lexemesOf(tok.toks)))]
    /\ UNCHANGED <<input, tz, tkbuf, frames, ret, status, tzErr, readsAfterErr,
                   tyIn, tyOut, inf, modules, runs>>

NextTok == TokNew \/ TokNext \/ TokAgain

SpecTok == InitTok /\ [][NextTok]_vars

-----------------------------------------------------------------------------
(* The reads of the tokenizer alone: read after read on a text, with a     *)
(* rune pushed back by unread right after the read that gave it, as Next,  *)
(* ident and litintfloat do.  tok is [text, t, before, last, reread] with  *)
(* last the rune the last read gave (NoRune after an unread and at the     *)
(* start) and reread whether the last read gave a rune pushed back.        *)

NoRune == -1

ReadChunks == {STR_a, STR_5, STR_space, STR_LF, STR_CR, STR_NUL}
ReadTexts == {Flatten(cs) : cs \in SeqsUpTo(ReadChunks, MaxChunks)}

InitRead ==
    /\ tok = Nil
    /\ input = Nil /\ tz = Nil /\ tkbuf = <<>> /\ frames = <<>> /\ ret = Nil
    /\ status = "read" /\ tzErr = Nil /\ readsAfterErr = 0
    /\ idleTypes /\ idleInfer /\ idleCheck

ReadNew ==
    /\ status = "read"
    /\ tok = Nil
    /\ \E text \in ReadTexts :
          tok' = [text |-> text, t |-> NewTokenizerString(text),
                  before |-> NewTokenizerString(text), last |-> NoRune,
                  reread |-> FALSE, panic |-> FALSE]
    /\ UNCHANGED <<input, tz, tkbuf, frames, ret, status, tzErr, readsAfterErr,
                   tyIn, tyOut, inf, modules, runs>>

\* tokenizer.read, until it has given eof at the end of the text.
ReadRune ==
    /\ status = "read"
    /\ tok # Nil
    /\ ~(tok.last = eof /\ tok.t.pos >= Len(tok.text))
    /\ \E r \in {tzRead(tok.t)} :
          tok' = [tok EXCEPT !.t = r.t, !.before = tok.t, !.last = r.rn,
                             !.reread = tok.t.rn # eof]
    /\ UNCHANGED <<input, tz, tkbuf, frames, ret, status, tzErr, readsAfterErr,
                   tyIn, tyOut, inf, modules, runs>>

\* tokenizer.unread of the rune the last read gave.
ReadUnread ==
    /\ status = "read"
    /\ tok # Nil
    /\ tok.last \notin {NoRune, eof}
    /\ \E u \in {tzUnread(tok.t, tok.last)} :
          tok' = [tok EXCEPT !.t = u.t, !.before = tok.t, !.last = NoRune,
                             !.reread = FALSE, !.panic = u.panic]
    /\ UNCHANGED <<input, tz, tkbuf, frames, ret, status, tzErr, readsAfterErr,
                   tyIn, tyOut, inf, modules, runs>>

NextRead == ReadNew \/ ReadRune \/ ReadUnread

SpecRead == InitRead /\ [][NextRead]_vars

-----------------------------------------------------------------------------
(* Claims about the parser                                                 *)

finished == status \in {"done", "panic"}

\* C1: for a text of n >= 0 well-formed function definitions and nothing
\* else, Funcs returns no error and exactly the n FuncNodes, in the order
\* of the text.
C1_FuncsReturnsAllFuncs ==
    (finished /\ input # Nil /\ input.program) =>
        /\ status = "done"
        /\ ret.err = Nil
        /\ Len(ret.val) = Len(input.names)
        /\ \A i \in 1..Len(input.names) : ret.val[i].Name = input.names[i]

\* C2: parsing never panics, whatever the text and the number of items.
C2_NoPanic == status # "panic"

\* C3: once Next has returned an error, every parse function in progress
\* returns that error and no further token is read.
C3_FirstErrorReturnedAtOnce ==
    tzErr # Nil =>
        /\ status # "panic"
        /\ ret # Nil
        /\ ret.err = tzErr
        /\ readsAfterErr = 0

\* A node without the token it came from.
noToken(n) == [x \in DOMAIN n \ {"Token"} |-> n[x]]
noTokens(nodes) == [k \in 1..Len(nodes) |-> noToken(nodes[k])]

five == [neg |-> FALSE, digits |-> STR_5]
fivePointZero == [neg |-> FALSE, int |-> STR_5, frac |-> <<>>]

\* What DeclFunc(a, r, b) declares.
declArgs(a) == [i \in 1..a |-> Arg(declArgName(i), PrimType(declArgType(i)))]
declRets ==
    << <<>>, <<PrimType(STR_int)>>, <<PrimType(STR_float), PrimType(STR_int)>>,
       <<UnionType(<<PrimType(STR_float), PrimType(STR_int)>>)>> >>
declExp(i) ==
    CASE i % 3 = 1 -> <<[node |-> "LitInt", Value |-> five],
                        [node |-> "Verb", Verb |-> STR_foo]>>
      [] i % 3 = 2 -> <<[node |-> "Quot", Ident |-> STR_foo],
                        [node |-> "LitFloat", Value |-> fivePointZero]>>
      [] OTHER -> <<>>

isDeclared(val, a, r, b) ==
    /\ val # Nil
    /\ val.node = "Func"
    /\ val.Name = STR_main
    /\ val.Args = declArgs(a)
    /\ val.RetTypes = declRets[r]
    /\ Len(val.Body) = b
    /\ \A i \in 1..b :
          /\ val.Body[i].node = "Exp"
          /\ noTokens(val.Body[i].Exps) = declExp(i)

\* C21: parseFunc on a function of a arguments, the return types RetLexs[r]
\* and b body expressions returns no error and the FuncNode of that name,
\* those arguments, those return types and those expressions, each in the
\* order of the text.
C21_ParseFuncBuildsNode ==
    (finished /\ input # Nil /\ input.entry = "parseFunc") =>
        \A a \in 0..MaxItems, r \in 1..Len(RetLexs), b \in 0..MaxItems :
            input.text = Join(DeclFunc(a, r, b)) =>
                /\ status = "done"
                /\ ret.err = Nil
                /\ isDeclared(ret.val, a, r, b)

\* The items of the tokens from tokenizer t up to the first semicolon, as
\* (node, lexeme) pairs, with the tokenizer after that semicolon; ok is
\* FALSE when a token comes that is no item and no semicolon, or a quote
\* without an identifier after it, or no token at all.
RECURSIVE itemsUpToSemicolon(_, _)
itemsUpToSemicolon(t, items) ==
    LET r == tzNext(t) IN
    IF r.err # Nil \/ r.panic THEN [ok |-> FALSE, items |-> items, t |-> r.t]
    ELSE IF r.tok.Type = TT_SEMICOLON THEN [ok |-> TRUE, items |-> items, t |-> r.t]
    ELSE IF r.tok.Type = TT_LITINT
    THEN itemsUpToSemicolon(r.t, Append(items, [node |-> "LitInt", lex |-> r.tok.SVal]))
    ELSE IF r.tok.Type = TT_LITFLOAT
    THEN itemsUpToSemicolon(r.t, Append(items, [node |-> "LitFloat", lex |-> r.tok.SVal]))
    ELSE IF r.tok.Type = TT_IDENT
    THEN itemsUpToSemicolon(r.t, Append(items, [node |-> "Verb", lex |-> r.tok.SVal]))
    ELSE IF r.tok.Type = TT_QUOT
    THEN LET q == tzNext(r.t) IN
         IF q.err # Nil \/ q.panic \/ q.tok.Type # TT_IDENT
         THEN [ok |-> FALSE, items |-> items, t |-> q.t]
         ELSE itemsUpToSemicolon(q.t, Append(items, [node |-> "Quot", lex |-> q.tok.SVal]))
    ELSE [ok |-> FALSE, items |-> items, t |-> r.t]

\* The (node, lexeme) pair of a node of an expression; the name a Verb or
\* a Quot holds is its lexeme.
itemOf(n) ==
    [node |-> n.node,
     lex |-> CASE n.node = "Verb" -> n.Verb
               [] n.node = "Quot" -> n.Ident
               [] OTHER -> n.Token.SVal]
itemsOf(nodes) == [k \in 1..Len(nodes) |-> itemOf(nodes[k])]

\* C22: parseExp returns the ExpNode of the items up to the first
\* semicolon, in the order of the tokens, with the tokens through that
\* semicolon taken and no token more; where there is no such run of items
\* it returns an error.
C22_ParseExpItems ==
    (finished /\ input # Nil /\ input.entry = "parseExp") =>
        LET want == itemsUpToSemicolon(NewTokenizerString(input.text), <<>>) IN
        /\ status = "done"
        /\ want.ok =>
              /\ ret.err = Nil
              /\ ret.val # Nil
              /\ ret.val.node = "Exp"
              /\ itemsOf(ret.val.Exps) = want.items
              /\ tz = want.t
              /\ tkbuf = <<>>
        /\ ~want.ok => (ret.err # Nil /\ ret.val = Nil)

\* What follows the last colon of a name.
RECURSIVE afterLastColon(_)
afterLastColon(name) ==
    IF \A i \in 1..Len(name) : name[i] # CH_COLON THEN name
    ELSE afterLastColon(Tail(name))

\* C23: when the token parseFunc reads after func is an identifier with a
\* colon in it, parseFunc returns a ParserError of that token and no node;
\* and a FuncNode parseFunc returns has no colon in its name, so that the
\* name is what follows the last colon of the fully qualified name made of
\* a module name and it.
C23_NoColonInFuncName ==
    [][/\ (/\ At("parseFunc", "name")
           /\ ~pRead(tz, tkbuf).panic
           /\ pRead(tz, tkbuf).err = Nil
           /\ pRead(tz, tkbuf).tk.Type = TT_IDENT
           /\ ContainsRune(pRead(tz, tkbuf).tk.SVal, CH_COLON))
          => (/\ frames' = SubSeq(frames, 1, Len(frames) - 1)
              /\ ret' # Nil
              /\ ret'.val = Nil
              /\ ret'.err # Nil
              /\ ret'.err.kind = "ParserError"
              /\ ret'.err.Token = pRead(tz, tkbuf).tk)
       /\ (/\ status = "running"
           /\ frames # <<>>
           /\ top.fn = "parseFunc"
           /\ Len(frames') < Len(frames)
           /\ ret'.err = Nil)
          => (/\ ret'.val # Nil
              /\ ret'.val.node = "Func"
              /\ \A i \in 1..Len(ret'.val.Name) : ret'.val.Name[i] # CH_COLON
              /\ \A m \in ModuleNames :
                    afterLastColon(fqname(m, ret'.val.Name)) = ret'.val.Name)]_vars

C23_Witness ==
    /\ input # Nil
    /\ input.entry = "parseFunc"
    /\ input.text = Join(FuncLex(STR_m_f, <<>>, <<>>, <<>>))
    /\ status = "done"
    /\ ret.val = Nil
    /\ ret.err # Nil
    /\ ret.err.kind = "ParserError"
    /\ ret.err.Token.Type = TT_IDENT
    /\ ret.err.Token.SVal = STR_m_f

\* C28: the token buffer of the parser never holds more than one token;
\* a token in it is the token the step that pushed it back had read, and
\* the next read returns it without a call of Next; and no call of the
\* tokenizer panics over a rune pushed back twice.
C28_Pushback ==
    [][/\ Len(tkbuf') <= 1
       /\ (tkbuf' # <<>> /\ status = "running") =>
             /\ tkbuf' = <<pRead(tz, tkbuf).tk>>
             /\ pRead(tz', tkbuf').tk = tkbuf'[1]
             /\ pRead(tz', tkbuf').tkbuf = <<>>
             /\ ~pRead(tz', tkbuf').next
             /\ pRead(tz', tkbuf').tz = tz'
       /\ ~pRead(tz, tkbuf).panic
       /\ ~(status' = "panic" /\ ret'.panic = "BUG t.rn is not empty!")]_vars

\* C28_Witness: parseFunc has read the parenthesis of an argument and
\* pushed it back for parseArg.
C28_Witness ==
    /\ At("parseArg", "lparen")
    /\ Len(tkbuf) = 1
    /\ tkbuf[1].Type = TT_LPAREN
    /\ pRead(tz, tkbuf).tk = tkbuf[1]
    /\ pRead(tz, tkbuf).tz = tz

STR_nestedUnion ==
    Join(<<LCB, STR_int, LCB, STR_foo, STR_bar, RCB, STR_float, RCB>>)

\* C12: when parseType, inside a union, reads a left brace, it returns a
\* ParserError for that token and reads no token after it: the tokenizer and
\* the pushed-back tokens are as that one read left them.
C12_NestedUnionIsError ==
    [][(/\ At("parseType", "union")
        /\ ~pRead(tz, tkbuf).panic
        /\ pRead(tz, tkbuf).err = Nil
        /\ pRead(tz, tkbuf).tk.Type = TT_LCBRACKET)
       => (/\ frames' = SubSeq(frames, 1, Len(frames) - 1)
           /\ ret' # Nil
           /\ ret'.val = Nil
           /\ ret'.err # Nil
           /\ ret'.err.kind = "ParserError"
           /\ ret'.err.Token = pRead(tz, tkbuf).tk
           /\ tz' = pRead(tz, tkbuf).tz
           /\ tkbuf' = pRead(tz, tkbuf).tkbuf)]_vars

\* parseType on {int {foo bar} float}: the error is at the second left
\* brace, the seventh rune, and the tokenizer stays there.
C12_Witness ==
    /\ input # Nil
    /\ input.entry = "parseType"
    /\ input.text = STR_nestedUnion
    /\ status = "done"
    /\ ret.err # Nil
    /\ ret.err.kind = "ParserError"
    /\ ret.err.Token.Type = TT_LCBRACKET
    /\ ret.err.Token.Pos.CharNumber = 8
    /\ tz.pos = 7
    /\ tkbuf = <<>>

\* C13: no parse returns, without an error, a Union of zero members: the
\* tokens left brace, right brace are an error.
C13_NoEmptyUnion ==
    (/\ status \in {"running", "done"}
     /\ ret # Nil
     /\ ret.err = Nil
     /\ "tag" \in DOMAIN ret.val
     /\ ret.val.tag = "union")
    => Len(ret.val.Types) > 0

-----------------------------------------------------------------------------
(* Claims about TypeWorlds.Lookup                                          *)

\* The worlds of tyIn that bind the name looked up.
binders == {i \in 1..Len(tyIn.worlds) : tyIn.val \in DOMAIN tyIn.worlds[i]}
innermost == CHOOSE i \in binders : \A j \in binders : j <= i

\* C24: Lookup returns what the last world that binds the name binds it
\* to, nil exactly when no world binds it, and leaves the worlds as they
\* were.
C24_LookupInnermost ==
    (tyOut # Nil /\ tyOut.op = "Lookup") =>
        /\ binders # {} => tyOut.res = tyIn.worlds[innermost][tyIn.val]
        /\ tyOut.res = Nil <=> binders = {}
        /\ tyOut.worlds = tyIn.worlds

\* C24_Witness: a name bound in the first and the last of three worlds, to
\* different types.
C24_Witness ==
    /\ tyOut # Nil
    /\ tyOut.op = "Lookup"
    /\ Len(tyIn.worlds) = 3
    /\ binders = {1, 3}
    /\ tyIn.val = STR_square_i
    /\ tyIn.worlds[1] = builtins
    /\ tyIn.worlds[3][tyIn.val] # builtins[tyIn.val]
    /\ tyOut.res = tyIn.worlds[3][tyIn.val]

-----------------------------------------------------------------------------
(* Claims about the tokenizer                                              *)

\* The runes of the source a tokenizer has taken: those read, less the one
\* pushed back.
consumed(t) == t.pos - (IF t.rn # eof THEN 1 ELSE 0)

lastTok == tok.toks[Len(tok.toks)]

\* The last call of Next returned a token.
gaveToken == tok # Nil /\ tok.calls >= 1 /\ tok.err = Nil /\ ~tok.panic

\* C14: calling Next again and again on a finite text comes to an error or
\* to a token of kind EOF after at most one call more than the text has
\* runes; no call panics, and each call that returns a token of another
\* kind has taken at least one more rune of the text.
C14_NextTerminates ==
    tok # Nil =>
        /\ ~tok.panic
        /\ (gaveToken /\ lastTok.Type # TT_EOF) =>
               consumed(tok.t) > consumed(tok.before)
        /\ consumed(tok.t) <= Len(tok.text)
        /\ tok.calls <= Len(tok.text) + 1
        /\ tok.calls = Len(tok.text) + 1 => (tok.err # Nil \/ tokEOF)

\* " func\n func\n " has given FUNC, FUNC, EOF in three calls.
C14_Witness ==
    /\ tok # Nil
    /\ tok.text = Flatten(<<STR_space, STR_func, STR_LF, STR_space, STR_func, STR_LF, STR_space>>)
    /\ tok.calls = 3
    /\ kindsOf(tok.toks) = <<TT_FUNC, TT_FUNC, TT_EOF>>

\* The state after a call of Next.
called == tok # Nil /\ tok.calls >= 1 /\ ~tok.panic

\* The least index from i on whose rune is not in the class, Len + 1 when
\* there is none.
RECURSIVE skipClass(_, _, _)
skipClass(text, i, class) ==
    IF i > Len(text) \/ text[i] \notin class THEN i
    ELSE skipClass(text, i + 1, class)

Digits == CH_0..CH_9
Letters == (CH_LOWER_A..CH_LOWER_Z) \cup (CH_UPPER_A..CH_UPPER_Z)
Spaces == {CH_TAB, CH_SPACE, CH_CR, CH_LF}

\* Where the last call found its first rune that is not whitespace.
startOf == skipClass(tok.text, consumed(tok.before) + 1, Spaces)
atStart == tok.text[startOf]
startsLiteral == startOf <= Len(tok.text) /\ atStart \in Digits \cup {CH_MINUS}
startsIdent == startOf <= Len(tok.text) /\ atStart \in Letters \cup {CH_PERCENT}

\* The literal at startOf: its first rune and the digits and dots after it.
litEnd == skipClass(tok.text, startOf + 1, Digits \cup {CH_DOT}) - 1
litLexeme == SubSeq(tok.text, startOf, litEnd)
litDots == Cardinality({i \in startOf..litEnd : tok.text[i] = CH_DOT})

\* C15: a call of Next that finds a digit or a minus sign takes that rune
\* and the digits and dots after it; with two dots or more it returns an
\* error; a token it returns has that lexeme, is LITFLOAT with a dot and
\* LITINT without, and the rune after the lexeme is not taken; and Next
\* returns a LITINT or LITFLOAT token in no other place.
C15_LiteralShape ==
    called =>
        /\ (startsLiteral /\ litDots >= 2) => tok.err # Nil
        /\ (startsLiteral /\ tok.err = Nil) =>
              /\ lastTok.SVal = litLexeme
              /\ lastTok.Type = (IF litDots = 1 THEN TT_LITFLOAT ELSE TT_LITINT)
              /\ consumed(tok.t) = litEnd
        /\ (tok.err = Nil /\ lastTok.Type \in {TT_LITINT, TT_LITFLOAT}) => startsLiteral

\* C16: the lexeme of a LITINT or LITFLOAT token has a digit in it.
C16_LiteralHasDigit ==
    (called /\ tok.err = Nil /\ lastTok.Type \in {TT_LITINT, TT_LITFLOAT}) =>
        \E i \in 1..Len(lastTok.SVal) : lastTok.SVal[i] \in Digits

\* The identifier at startOf.
identEnd == skipClass(tok.text, startOf + 1, Letters \cup {CH_DOT, CH_COLON}) - 1
identLexeme == SubSeq(tok.text, startOf, identEnd)

\* C17: a call of Next that finds, after the whitespace, a letter or a
\* percent sign returns the token of that rune and the letters, dots and
\* colons after it, of kind FUNC when the lexeme is func and IDENT
\* otherwise; it returns FUNC and IDENT tokens in no other place, and no
\* token of kind IF or COLON at all.
C17_IdentShape ==
    called =>
        /\ startsIdent =>
              /\ tok.err = Nil
              /\ lastTok.SVal = identLexeme
              /\ lastTok.Type = (IF identLexeme = STR_func THEN TT_FUNC ELSE TT_IDENT)
        /\ (tok.err = Nil /\ lastTok.Type \in {TT_FUNC, TT_IDENT}) => startsIdent
        /\ tok.err = Nil => lastTok.Type \notin {TT_IF, TT_COLON}

\* C17_Witness: see C14_Witness for the text; here the second FUNC of it.
C17_Witness ==
    /\ called
    /\ tok.text = Flatten(<<STR_space, STR_func, STR_LF, STR_space, STR_func, STR_LF, STR_space>>)
    /\ tok.calls = 2
    /\ kindsOf(tok.toks) = <<TT_FUNC, TT_FUNC>>
    /\ startOf = 8
    /\ identLexeme = STR_func

\* C18: when a text has been tokenized to its EOF without an error, the
\* lexemes of its tokens before the EOF, joined by single spaces, tokenize
\* without an error to tokens of the same kinds in the same order.
C18_RoundTrip ==
    (tok # Nil /\ tok.again # Nil) =>
        /\ ~tok.again.panic
        /\ tok.again.err = Nil
        /\ kindsOf(tok.again.toks) = kindsOf(tok.toks)

C18_Witness ==
    /\ tok # Nil
    /\ tok.text = Flatten(<<STR_5, STR_dot, STR_5, STR_func>>)
    /\ tok.again # Nil
    /\ kindsOf(tok.toks) = <<TT_LITFLOAT, TT_FUNC, TT_EOF>>
    /\ kindsOf(tok.again.toks) = <<TT_LITFLOAT, TT_FUNC, TT_EOF>>
    /\ Len(Join(lexemesOf(tok.toks))) = Len(tok.text) + 1

\* The last call of Next returned the error of an unexpected rune.
unexpectedRune ==
    /\ called /\ tok.err # Nil /\ tok.err.kind = "TokenizerError"
    /\ tok.err.Err # Nil /\ "rn" \in DOMAIN tok.err.Err

\* The 1-based line and column of the rune at index i of the text; a
\* carriage return takes no column.
lineOf(text, i) == 1 + Cardinality({j \in 1..i - 1 : text[j] = CH_LF})
lineStart(text, i) ==
    LET lfs == {j \in 1..i - 1 : text[j] = CH_LF} IN
    IF lfs = {} THEN 0 ELSE CHOOSE j \in lfs : \A k \in lfs : k <= j
columnOf(text, i) ==
    1 + Cardinality({j \in lineStart(text, i) + 1..i - 1 : text[j] # CH_CR})

\* C19: the error of an unexpected rune carries the line and the column,
\* both counted from 1, of that rune in the text.
C19_ErrorPosition ==
    unexpectedRune =>
        /\ tok.err.Err.rn = atStart
        /\ tok.err.Pos.LineNumber = lineOf(tok.text, startOf)
        /\ tok.err.Pos.CharNumber = columnOf(tok.text, startOf)

\* The runes Next has a token for, at the start of a token.
Puncts ==
    {CH_NUMSIGN, CH_SEMICOLON, CH_LCBRACKET, CH_RCBRACKET, CH_LBRACKET,
     CH_RBRACKET, CH_LPAREN, CH_RPAREN, CH_QUOT}
Starters == Puncts \cup Letters \cup Digits \cup {CH_PERCENT, CH_MINUS}

\* C20: Next returns EOF only with every rune of the text taken; a rune
\* after the whitespace that starts no token makes Next return an error;
\* and the runes a call takes for a token are the whitespace before it and
\* its lexeme, no rune more.
C20_EOFOnlyAtEnd ==
    called =>
        /\ (tok.err = Nil /\ lastTok.Type = TT_EOF) => consumed(tok.t) = Len(tok.text)
        /\ (startOf <= Len(tok.text) /\ atStart \notin Starters) => tok.err # Nil
        /\ (tok.err = Nil /\ lastTok.Type # TT_EOF) =>
              consumed(tok.t) = startOf - 1 + Len(lastTok.SVal)

\* C27: an error Next returns is a TokenizerError with a position and
\* with a cause that is not nil.
C27_ErrorHasCause ==
    (tok # Nil /\ tok.err # Nil) =>
        /\ tok.err.kind = "TokenizerError"
        /\ tok.err.Pos.LineNumber >= 1
        /\ tok.err.Pos.CharNumber >= 1
        /\ tok.err.Err # Nil

-----------------------------------------------------------------------------
(* Claims about the type algebra                                           *)

Sign(x) == IF x < 0 THEN -1 ELSE IF x > 0 THEN 1 ELSE 0

isFlat(t) == t.tag \in {"void", "prim"}
pairwiseDistinct(l) == \A i, j \in 1..Len(l) : l[i] = l[j] => i = j
sortedByTypeCmp(l) == \A i \in 1..Len(l) - 1 : TypeCmp(l[i], l[i + 1]) < 0
members(l) == {l[i] : i \in 1..Len(l)}

\* C8: NewUnionType of any permutation of a list of pairwise distinct
\* members (Void or Prim, a union has no union as a member) succeeds and
\* gives equal unions whose members are those of the list sorted by
\* TypeCmp; of a list with two equal members it fails.
C8_UnionCanonical ==
    (tyOut # Nil /\ tyOut.op = "NewUnionType" /\ \A t \in members(tyIn.list) : isFlat(t)) =>
        IF pairwiseDistinct(tyIn.list)
        THEN /\ tyOut.res.err = Nil
             /\ tyOut.resPerm.err = Nil
             /\ TypeEqual(tyOut.res.ut, tyOut.resPerm.ut)
             /\ tyOut.res.ut = tyOut.resPerm.ut
             /\ sortedByTypeCmp(tyOut.res.ut.Types)
             /\ members(tyOut.res.ut.Types) = members(tyIn.list)
             /\ Len(tyOut.res.ut.Types) = Len(tyIn.list)
        ELSE /\ tyOut.res.err # Nil
             /\ tyOut.resPerm.err # Nil

\* {int float} and {float int} both give the members [float, int].
C8_Witness ==
    /\ tyOut # Nil
    /\ tyOut.op = "NewUnionType"
    /\ tyIn.list = <<PrimType(STR_int), PrimType(STR_float)>>
    /\ tyOut.perm = <<PrimType(STR_float), PrimType(STR_int)>>
    /\ tyOut.res.ut = UnionType(<<PrimType(STR_float), PrimType(STR_int)>>)
    /\ tyOut.resPerm.ut = tyOut.res.ut

\* C9: TypeCmp is a total order on Void, Prim and Union types: TypeCmp(a,a)
\* is 0, the signs of TypeCmp(a,b) and TypeCmp(b,a) are opposite, a <= b and
\* b <= c give a <= c, and a union of fewer members is before one of more.
C9_TypeCmpTotalOrder ==
    (tyOut # Nil /\ tyOut.op = "TypeCmp") =>
        /\ tyOut.aa = 0
        /\ Sign(tyOut.ab) = -Sign(tyOut.ba)
        /\ (tyOut.ab <= 0 /\ tyOut.bc <= 0) => tyOut.ac <= 0
        /\ (tyIn.a.tag = "union" /\ tyIn.b.tag = "union"
              /\ Len(tyIn.a.Types) < Len(tyIn.b.Types)) => tyOut.ab < 0

\* C10: TypeEqual(a, b) holds exactly when a and b are the same type, and
\* TypeEqual(a, b) = TypeEqual(b, a).
C10_TypeEqualStructural ==
    (tyOut # Nil /\ tyOut.op = "TypeEqual") =>
        /\ tyOut.ab <=> (tyIn.a = tyIn.b)
        /\ tyOut.ab <=> tyOut.ba

\* The relation of the reference: Void fits Void, a Prim fits the same Prim
\* and a union it is a member of, a union fits a union of all its members.
compatRef(a, b) ==
    CASE a.tag = "void" -> b.tag = "void"
      [] a.tag = "prim" /\ b.tag = "prim" -> a.Type = b.Type
      [] a.tag = "prim" /\ b.tag = "union" -> a \in members(b.Types)
      [] a.tag = "union" /\ b.tag = "union" -> members(a.Types) \subseteq members(b.Types)
      [] OTHER -> FALSE

unionOfPrim(t) ==
    \/ isFlat(t)
    \/ t.tag = "union" /\ \A m \in members(t.Types) : m.tag = "prim"

\* C11: on Void, Prim and Union-of-Prim types TypeCompatibleWith(a, b) is
\* the reference relation, and TypeCompatibleWith(t, t) is true.
C11_CompatIsReference ==
    (tyOut # Nil /\ tyOut.op = "TypeCompatibleWith"
        /\ unionOfPrim(tyIn.a) /\ unionOfPrim(tyIn.b)) =>
        /\ tyOut.ab <=> compatRef(tyIn.a, tyIn.b)
        /\ tyOut.aa

\* {float int} does not fit {float foo}: int is in the one and not the other.
C11_Witness ==
    /\ tyOut # Nil
    /\ tyOut.op = "TypeCompatibleWith"
    /\ tyIn.a = UnionType(<<PrimType(STR_float), PrimType(STR_int)>>)
    /\ tyIn.b = UnionType(<<PrimType(STR_float), PrimType(STR_foo)>>)
    /\ ~tyOut.ab
    /\ tyOut.aa

-----------------------------------------------------------------------------
(* Claims about InferTypes                                                 *)

lastItem == inf.exp.Exps[inf.i]
stepped == inf # Nil /\ inf.i >= 1

\* C6: in an ExpNode a literal appends one entry (Prim int for LitIntNode,
\* Prim float for LitFloatNode) and a well-typed verb of n argument types
\* replaces the top n entries by its return types in declared order; the
\* entries below are unchanged and the length is old - n + returned.
C6_StackDiscipline ==
    stepped =>
        /\ lastItem.node = "LitInt" =>
              inf.err = Nil /\ inf.stack = Append(inf.before, PrimType(STR_int))
        /\ lastItem.node = "LitFloat" =>
              inf.err = Nil /\ inf.stack = Append(inf.before, PrimType(STR_float))
        /\ (lastItem.node = "Verb" /\ inf.err = Nil) =>
              LET ft == Lookup(inf.worlds, lastItem.Verb)
                  n == Len(ft.ArgTypes)
                  kept == Len(inf.before) - n
              IN
              /\ kept >= 0
              /\ Len(inf.stack) = Len(inf.before) - n + Len(ft.RetTypes)
              /\ \A j \in 1..kept : inf.stack[j] = inf.before[j]
              /\ \A j \in 1..Len(ft.RetTypes) : inf.stack[kept + j] = ft.RetTypes[j]

\* m:f takes (int, float) off a stack of three and gives (float, int); the
\* first entry stays.
C6_Witness ==
    /\ stepped
    /\ lastItem.node = "Verb"
    /\ lastItem.Verb = STR_m_f
    /\ inf.err = Nil
    /\ inf.before = <<UnionFloatInt, PrimType(STR_int), PrimType(STR_float)>>
    /\ inf.stack = <<UnionFloatInt, PrimType(STR_float), PrimType(STR_int)>>

\* C7: a verb with argument types a[0..n-1] on a stack S of at least n
\* entries, some S[|S|-n+i] not compatible with a[i]: InferTypes returns a
\* TypeError with Wanted = a[i] and Got = S[|S|-n+i] for the least such i.
C7_TypeErrorOfFirstMismatch ==
    (stepped /\ lastItem.node = "Verb" /\ Lookup(inf.worlds, lastItem.Verb) # Nil) =>
        LET a == Lookup(inf.worlds, lastItem.Verb).ArgTypes
            n == Len(a)
            S == inf.before
            bad == {i \in 0..n - 1 : ~TypeCompatibleWith(S[Len(S) - n + i + 1], a[i + 1])}
        IN
        (Len(S) >= n /\ bad # {}) =>
            LET i == CHOOSE x \in bad : \A y \in bad : x <= y IN
            /\ inf.err # Nil
            /\ inf.err.kind = "TypeError"
            /\ inf.err.Wanted = a[i + 1]
            /\ inf.err.Got = S[Len(S) - n + i + 1]

\* m:f wants (int, float) and gets (float, int): both pairs are wrong and
\* the error is about the first.
C7_Witness ==
    /\ stepped
    /\ lastItem.node = "Verb"
    /\ lastItem.Verb = STR_m_f
    /\ inf.before = <<PrimType(STR_float), PrimType(STR_int)>>
    /\ inf.err # Nil
    /\ inf.err.kind = "TypeError"
    /\ inf.err.Wanted = PrimType(STR_int)
    /\ inf.err.Got = PrimType(STR_float)

-----------------------------------------------------------------------------
(* Claims about TypeCheck                                                  *)

allFuncs ==
    UNION {{modules[k].Funcs[f] : f \in DOMAIN modules[k].Funcs} : k \in DOMAIN modules}

checkWorlds == NewTypeWorlds(builtins, modulesTypeWorld(modules))

\* The stack the body of fn leaves, from the empty stack.
bodyOf(fn) == inferBody(fn.FuncNode.Body, 1, <<>>, checkWorlds)

badReturns(fn) ==
    {i \in 1..Len(bodyOf(fn).stack) :
        ~TypeCompatibleWith(bodyOf(fn).stack[i], fn.FuncNode.RetTypes[i])}

wellTyped(fn) ==
    /\ bodyOf(fn).err = Nil
    /\ Len(bodyOf(fn).stack) = Len(fn.FuncNode.RetTypes)
    /\ badReturns(fn) = {}

\* C4: TypeCheck returns nil exactly when the body of every function of
\* every module infers from the empty stack (arguments not pushed), leaves
\* as many entries as the function declares return types and each entry is
\* compatible with the return type at its index; otherwise it returns the
\* error of a function that is not so: the inference error, the arity
\* error when the lengths differ, a TypeError when an entry does not fit.
C4_NilIffAllWellTyped ==
    \A r \in {1, 2} :
        (modules # Nil /\ runs[r].pc # "start" /\ runs[r].pc # "loop") =>
            /\ runs[r].pc = "returned"
            /\ (runs[r].err = Nil) <=> (\A fn \in allFuncs : wellTyped(fn))
            /\ runs[r].err # Nil =>
                  \E fn \in allFuncs :
                     IF bodyOf(fn).err # Nil
                     THEN runs[r].err = bodyOf(fn).err
                     ELSE IF Len(bodyOf(fn).stack) # Len(fn.FuncNode.RetTypes)
                     THEN /\ runs[r].err.kind = "error"
                          /\ runs[r].err.msg = "does not return the right amount of values"
                          /\ runs[r].err.fn = fn.Name
                          /\ runs[r].err.wanted = Len(fn.FuncNode.RetTypes)
                          /\ runs[r].err.got = Len(bodyOf(fn).stack)
                     ELSE /\ runs[r].err.kind = "TypeError"
                          /\ \E i \in badReturns(fn) :
                                /\ runs[r].err.Wanted = fn.FuncNode.RetTypes[i]
                                /\ runs[r].err.Got = bodyOf(fn).stack[i]

\* Two modules of well typed functions, one calling into the other: nil.
C4_Witness ==
    /\ modules # Nil
    /\ DOMAIN modules = {STR_m, STR_n}
    /\ DOMAIN modules[STR_m].Funcs = {STR_g, STR_t}
    /\ DOMAIN modules[STR_n].Funcs = {STR_q}
    /\ runs[1].pc = "returned"
    /\ runs[1].err = Nil

\* C5: two runs of TypeCheck on the same modules have the same outcome:
\* both nil or both the same error.
C5_SameOutcomeTwice ==
    (modules # Nil /\ runs[1].pc = "returned" /\ runs[2].pc = "returned") =>
        runs[1].err = runs[2].err

\* The verbs of the body of a function, and the first item of the body.
verbsOf(fn) ==
    UNION {{fn.FuncNode.Body[i].Exps[j].Verb :
               j \in {j \in 1..Len(fn.FuncNode.Body[i].Exps) :
                         fn.FuncNode.Body[i].Exps[j].node = "Verb"}}
           : i \in 1..Len(fn.FuncNode.Body)}
firstItem(fn) == fn.FuncNode.Body[1].Exps[1]

doesNotExist(v) == [kind |-> "error", msg |-> "does not exist", verb |-> v]

\* C25: once TypeCheck has made its type worlds, the fully qualified name
\* of every function of every module resolves to the type of that function
\* and its short name resolves to nothing; the check of a function that
\* calls one of its own module by the short name gives an error, the does
\* not exist error of that name when the call is the first item; the check
\* of a function that calls m:g gives no error when module m has g,
\* whichever module the caller is in; no body is checked before the worlds
\* are made; and a run that returns nil met no call by a short name.
C25_OnlyFullyQualified ==
    modules # Nil =>
        \A r \in 1..2 :
            /\ runs[r].pc = "start" => (runs[r].err = Nil /\ runs[r].typeWorlds = <<>>)
            /\ runs[r].pc \in {"loop", "returned"} =>
                  \A k \in DOMAIN modules : \A f \in DOMAIN modules[k].Funcs :
                      LET fn == modules[k].Funcs[f]
                          tws == runs[r].typeWorlds
                          short == verbsOf(fn) \cap DOMAIN modules[k].Funcs
                      IN
                      /\ Lookup(tws, fqname(k, f)) = fn.Type
                      /\ Lookup(tws, f) = Nil
                      /\ short # {} =>
                            /\ checkFunc(fn, tws) # Nil
                            /\ firstItem(fn).node = "Verb" /\ firstItem(fn).Verb \in short
                               => checkFunc(fn, tws) = doesNotExist(firstItem(fn).Verb)
                            /\ ~(runs[r].pc = "returned" /\ runs[r].err = Nil)
                      /\ (/\ verbsOf(fn) = {STR_m_g}
                          /\ STR_m \in DOMAIN modules
                          /\ STR_g \in DOMAIN modules[STR_m].Funcs)
                         => checkFunc(fn, tws) = Nil

\* C25_Witness: module m holds g and s, module n holds q; the run met s
\* and returned its error.
C25_Witness ==
    /\ modules # Nil
    /\ DOMAIN modules = {STR_m, STR_n}
    /\ DOMAIN modules[STR_m].Funcs = {STR_g, STR_s}
    /\ DOMAIN modules[STR_n].Funcs = {STR_q}
    /\ runs[1].pc = "returned"
    /\ runs[1].err = doesNotExist(STR_g)
    /\ Lookup(runs[1].typeWorlds, STR_m_g) = modules[STR_m].Funcs[STR_g].Type
    /\ checkFunc(modules[STR_n].Funcs[STR_q], runs[1].typeWorlds) = Nil

-----------------------------------------------------------------------------
(* Claims about the reads of the tokenizer                                 *)

\* The runes of the text taken so far, a pending one among them.
taken == tok.t.pos

\* C26: after any reads and pushbacks the line number is one more than
\* the line feeds among the runes taken from the text, and the column is
\* one more than the runes other than carriage returns taken since the
\* last line feed; a read that gives a rune pushed back leaves both as
\* they were and takes no rune.
C26_PositionTracking ==
    tok # Nil =>
        /\ tok.t.lineno = 1 + Cardinality({j \in 1..taken : tok.text[j] = CH_LF})
        /\ tok.t.charno =
              1 + Cardinality({j \in lineStart(tok.text, taken + 1) + 1..taken :
                                  tok.text[j] # CH_CR})
        /\ tok.reread =>
              /\ tok.t.lineno = tok.before.lineno
              /\ tok.t.charno = tok.before.charno
              /\ tok.t.pos = tok.before.pos

\* C26_Witness: a, carriage return, line feed, a; the second a read, pushed
\* back and read again, on line 2 in column 2.
C26_Witness ==
    /\ tok # Nil
    /\ tok.text = Flatten(<<STR_a, STR_CR, STR_LF, STR_a>>)
    /\ taken = 4
    /\ tok.reread
    /\ tok.last = CH_LOWER_A
    /\ tok.t.lineno = 2
    /\ tok.t.charno = 2

====
